---- MODULE Spec2Model ----
(***************************************************************************)
(* NanoSec OS kernel: process scheduler (kernel/proc/process.c), pipes     *)
(* (kernel/proc/pipe.c) and signals (kernel/proc/signal.c).                *)
(*                                                                         *)
(* Process-table slots, kernel stacks and pipe slots are identified by     *)
(* their array index; a pointer to a TCB is the index of its slot and the  *)
(* null pointer is NULL.  A saved stack pointer (esp) is the index of the  *)
(* kernel stack it points into.                                            *)
(***************************************************************************)
EXTENDS Integers, Sequences, FiniteSets, TLC

VARIABLES
  proc_table,         \* process.c:13  TCB array (fields pid, state, time_slice, next, esp)
  next_pid,           \* process.c:14
  current_process,    \* process.c:17
  ready_queue_head,   \* process.c:21
  ready_queue_tail,   \* process.c:22
  cpu,                \* the kernel stack the CPU is executing on
  last,               \* history: the last operation called and its caller
  quanta,             \* history: the processes given the CPU by the latest schedule() calls
  proc_stacks,        \* process.c:25  what each kernel stack holds: the position of the
                      \* code running on it and the locals of its schedule() call
  preempted,          \* history: the number of timer interrupts taken inside schedule()
  pipes,              \* pipe.c:25  the pipe slots
  pcall,              \* the pipe call each calling task is in, with its locals
  phist,              \* history of the pipe slots: bytes stored and copied out, ...
  signal_states,      \* signal.c:47  pending, blocked and handlers of each pid
  sigcalls,           \* history: the number of calls made to the functions of signal.c
  heap,               \* memory.c:16  the block list from heap_start on, in list order
  total_allocated,    \* memory.c:17
  total_free,         \* memory.c:18
  live,               \* history: the pointers kmalloc returned that are not yet freed,
                      \* each with the size that was asked for
  page_bitmap,        \* paging.c:31  the set of the page numbers whose bit is set
  free_pages,         \* paging.c:32
  page_directory,     \* paging.c:23  per entry: PAGE_PRESENT and the page of the table
  ptmem,              \* the memory of each physical page, read as a page table
  vmap,               \* history: per virtual page, the physical address of the latest
                      \* page_map of it, 0 after a page_unmap, NoPage before both
  mapcalls,           \* history: the number of page_map and page_unmap calls made
  arp_cache,          \* arp.c:21
  timer_ticks,        \* timer.c:19
  tcp_sockets,        \* tcp.c:62
  tcp_isn,            \* tcp.c:65
  rx_ring,            \* the frames in the receive ring of the NE2000
  pipe_buffer,        \* shell_pipe.c:11-12, pipe_buffer_len being its length
  pipe_mode,          \* shell_pipe.c:13
  vga_buffer,         \* vga.c:15, the character of each cell
  cursor_x,           \* vga.c:16
  cursor_y,           \* vga.c:17
  nodes,              \* ramfs.c:32
  current_dir,        \* ramfs.c:33
  isr_handlers        \* idt.c:16

(* ------------------------------------------------------------------ *)
(* Constants of the program                                            *)
(* ------------------------------------------------------------------ *)
PROC_UNUSED == 0
PROC_CREATED == 1
PROC_READY == 2
PROC_RUNNING == 3
PROC_BLOCKED == 4
PROC_ZOMBIE == 5

\* 10 timer ticks per quantum (process.c:81 and process.c:260)
TIME_SLICE == 10

\* The table sizes of the program are scaled down for model checking.
MAX_PROCESSES == 3

NULL == 0 - 1
Slots == 0 .. (MAX_PROCESSES - 1)
idle_process == 0

\* the fields of process_t the scheduler reads (process.h:27-53); ppid,
\* priority, name, page_dir, stack_bottom and total_time are written but
\* never read by the code modelled here and are left out
TCB == [pid : Nat, state : PROC_UNUSED .. PROC_ZOMBIE, time_slice : 0 .. TIME_SLICE,
        next : Slots \cup {NULL}, esp : Slots \cup {NULL}]

\* the scheduler's global data as one value, so that the functions of
\* process.c can be written as operators from state to state
K == [proc_table |-> proc_table, next_pid |-> next_pid,
      current_process |-> current_process,
      ready_queue_head |-> ready_queue_head,
      ready_queue_tail |-> ready_queue_tail, cpu |-> cpu]

(* ------------------------------------------------------------------ *)
(* process.c                                                           *)
(* ------------------------------------------------------------------ *)

\* proc_init: every slot UNUSED with pid 0 (the table is a zeroed static),
\* slot 0 is the kernel/idle process, RUNNING and current
proc_init ==
  [proc_table |->
     [i \in Slots |->
        IF i = idle_process
          THEN [pid |-> 0, state |-> PROC_RUNNING, time_slice |-> 0,
                next |-> NULL, esp |-> 0]
          ELSE [pid |-> 0, state |-> PROC_UNUSED, time_slice |-> 0,
                next |-> NULL, esp |-> NULL]],
   next_pid |-> 1,
   current_process |-> idle_process,
   ready_queue_head |-> NULL,
   ready_queue_tail |-> NULL,
   cpu |-> 0]

\* mutant of proc_alloc: a ZOMBIE slot is handed out like an UNUSED one
proc_alloc_takes_zombie(s) ==
  LET free(i) == s.proc_table[i].state \in {PROC_UNUSED, PROC_ZOMBIE} IN
  IF \E i \in Slots : i >= 1 /\ free(i)
    THEN CHOOSE i \in Slots :
           i >= 1 /\ free(i) /\ \A j \in Slots : (j >= 1 /\ j < i) => ~free(j)
    ELSE NULL

\* proc_alloc: the first UNUSED slot from index 1, or NULL
proc_alloc(s) ==
  IF \E i \in Slots : i >= 1 /\ s.proc_table[i].state = PROC_UNUSED
    THEN CHOOSE i \in Slots :
           /\ i >= 1
           /\ s.proc_table[i].state = PROC_UNUSED
           /\ \A j \in Slots : (j >= 1 /\ j < i) => s.proc_table[j].state # PROC_UNUSED
    ELSE NULL

\* mutant of scheduler_add: on a non-empty queue the old tail is not linked
\* to proc
scheduler_add_unlinked(s, proc) ==
  LET s1 == [s EXCEPT !.proc_table[proc].next = NULL] IN
  IF s1.ready_queue_head = NULL
    THEN [s1 EXCEPT !.ready_queue_head = proc, !.ready_queue_tail = proc]
    ELSE [s1 EXCEPT !.ready_queue_tail = proc]

\* scheduler_add: append proc at the tail of the ready queue.  A store
\* through a null ready_queue_tail changes no TCB.
scheduler_add(s, proc) ==
  LET s1 == [s EXCEPT !.proc_table[proc].next = NULL] IN
  IF s1.ready_queue_head = NULL
    THEN [s1 EXCEPT !.ready_queue_head = proc, !.ready_queue_tail = proc]
    ELSE IF s1.ready_queue_tail = NULL
      THEN [s1 EXCEPT !.ready_queue_tail = proc]
      ELSE [s1 EXCEPT !.proc_table[s1.ready_queue_tail].next = proc,
                      !.ready_queue_tail = proc]

\* the slots the loop of scheduler_remove visits from p: it follows the next
\* pointers until it meets proc or a null pointer (fuel bounds the walk over
\* a list that holds no null pointer)
RECURSIVE remove_walk(_, _, _, _)
remove_walk(s, p, proc, fuel) ==
  IF p = NULL \/ fuel = 0
    THEN <<>>
    ELSE IF p = proc
      THEN <<p>>
      ELSE <<p>> \o remove_walk(s, s.proc_table[p].next, proc, fuel - 1)

\* the slot at which the walk stopped, NULL for an empty walk
walk_end(w) == IF w = <<>> THEN NULL ELSE w[Len(w)]

\* the slot visited before the last one, NULL when there is none
walk_prev(w) == IF Len(w) > 1 THEN w[Len(w) - 1] ELSE NULL

\* scheduler_remove: unlink the first occurrence of proc from the ready
\* queue, move ready_queue_tail back when proc was the tail, and clear
\* proc->next; nothing when proc is not met
scheduler_remove(s, proc) ==
  LET w == remove_walk(s, s.ready_queue_head, proc, MAX_PROCESSES + 1)
  IN IF proc = NULL \/ walk_end(w) # proc
       THEN s
       ELSE LET after == s.proc_table[proc].next
                prev == walk_prev(w)
                s1 == IF prev # NULL
                        THEN [s EXCEPT !.proc_table[prev].next = after]
                        ELSE [s EXCEPT !.ready_queue_head = after]
                s2 == IF proc = s1.ready_queue_tail
                        THEN [s1 EXCEPT !.ready_queue_tail = prev]
                        ELSE s1
            IN [s2 EXCEPT !.proc_table[proc].next = NULL]

\* the loop of scheduler_remove ends: it meets proc or a null pointer
scheduler_remove_returns(s, proc) ==
  LET w == remove_walk(s, s.ready_queue_head, proc, MAX_PROCESSES + 1)
  IN Len(w) <= MAX_PROCESSES \/ walk_end(w) = proc

\* proc_destroy: nothing for a null pointer and for the idle process, else
\* the TCB leaves the ready queue and becomes UNUSED with pid 0
proc_destroy(s, proc) ==
  IF proc = NULL \/ proc = idle_process
    THEN s
    ELSE [scheduler_remove(s, proc) EXCEPT !.proc_table[proc].state = PROC_UNUSED,
                                           !.proc_table[proc].pid = 0]

\* switch_context(&old->esp, next->esp): save the running stack in old's
\* TCB and continue on the stack next's TCB saved
switch_context(s, old, next) ==
  LET target == s.proc_table[next].esp IN
  [s EXCEPT !.proc_table[old].esp = s.cpu, !.cpu = target]

\* lines 209-217 of schedule: take the head of the ready queue
schedule_dequeue(s) ==
  LET next == s.ready_queue_head
      head2 == s.proc_table[next].next IN
  [s EXCEPT !.ready_queue_head = head2,
            !.ready_queue_tail = IF head2 = NULL THEN NULL ELSE @,
            !.proc_table[next].next = NULL]

\* mutant of schedule_requeue: the old process is queued but left RUNNING
schedule_requeue_stays_running(s) ==
  IF s.current_process # NULL
     /\ s.proc_table[s.current_process].state = PROC_RUNNING
    THEN scheduler_add(s, s.current_process)
    ELSE s

\* lines 230-233 of schedule: a current process that is still RUNNING goes
\* back to READY and to the tail of the queue
schedule_requeue(s) ==
  IF s.current_process # NULL
     /\ s.proc_table[s.current_process].state = PROC_RUNNING
    THEN scheduler_add([s EXCEPT !.proc_table[s.current_process].state = PROC_READY],
                       s.current_process)
    ELSE s

\* schedule, run without interruption
schedule(s) ==
  LET next0 == s.ready_queue_head
      s1 == IF next0 # NULL THEN schedule_dequeue(s) ELSE s
      next == IF next0 = NULL THEN idle_process ELSE next0
  IN IF next = s1.current_process
       THEN s1
       ELSE LET s2 == schedule_requeue(s1)
                old == s2.current_process
                s3 == [s2 EXCEPT !.current_process = next,
                                 !.proc_table[next].state = PROC_RUNNING]
            IN IF old # NULL THEN switch_context(s3, old, next) ELSE s3

\* proc_create: NULL when the table is full, else the new READY process at
\* the tail of the ready queue
proc_create(s) ==
  LET proc == proc_alloc(s) IN
  IF proc = NULL
    THEN s
    ELSE scheduler_add(
           [s EXCEPT !.proc_table[proc] =
                        [pid |-> s.next_pid, state |-> PROC_READY,
                         time_slice |-> TIME_SLICE, next |-> @.next, esp |-> proc],
                     !.next_pid = @ + 1],
           proc)

\* proc_yield
proc_yield(s) == schedule(s)

\* mutant of proc_exit: the state is not set to ZOMBIE before schedule
proc_exit_no_zombie(s) ==
  IF s.current_process # NULL /\ s.current_process # idle_process
    THEN schedule(s)
    ELSE s

\* proc_exit: nothing for the idle process, else ZOMBIE and schedule
proc_exit(s) ==
  IF s.current_process # NULL /\ s.current_process # idle_process
    THEN schedule([s EXCEPT !.proc_table[s.current_process].state = PROC_ZOMBIE])
    ELSE s

\* timer_handler: the IRQ0 handler, entered through an interrupt gate
timer_handler(s) ==
  LET c == s.current_process
      s1 == IF c # NULL /\ s.proc_table[c].time_slice > 0
              THEN [s EXCEPT !.proc_table[c].time_slice = @ - 1]
              ELSE s
  IN IF c # NULL /\ s1.proc_table[c].time_slice = 0
       THEN schedule([s1 EXCEPT !.proc_table[c].time_slice = TIME_SLICE])
       ELSE s1

(* ------------------------------------------------------------------ *)
(* pipe.c: data                                                        *)
(* ------------------------------------------------------------------ *)
\* the buffer size and the number of pipe slots, scaled down
PIPE_BUFFER_SIZE == 2
MAX_PIPES == 1

\* the tasks that call the pipe functions
NumCallers == 2
Callers == 1 .. NumCallers

\* the bounds on one call's length, on the bytes handed to pipe_write and on
\* the calls made in one run
MaxLen == 3
MaxBytes == 3
MaxCalls == 5

PipeIds == 0 .. (MAX_PIPES - 1)
Cells == 0 .. (PIPE_BUFFER_SIZE - 1)

\* uint16_t arithmetic of read_pos, write_pos and count (pipe.c:16-18)
U16(x) == x % 65536

\* pipe_init: every slot free; the static array is zeroed
pipe_init ==
  [i \in PipeIds |->
     [buffer |-> [c \in Cells |-> 0], read_pos |-> 0, write_pos |-> 0,
      count |-> 0, read_end_open |-> 0, write_end_open |-> 0, in_use |-> 0]]

\* a task outside the pipe functions
NoCall == [op |-> "none"]

\* per slot: gen counts the pipe_create calls that took the slot; accepted
\* and delivered are the bytes stored by pipe_write and copied out by
\* pipe_read since the last of them; eof: a pipe_read returned 0 at end of
\* file since then; stale: a call that resolved its handle before the last
\* pipe_create changed the slot.  bytes and calls count what one run used.
NoHistory ==
  [gen |-> [i \in PipeIds |-> 0],
   accepted |-> [i \in PipeIds |-> <<>>],
   delivered |-> [i \in PipeIds |-> <<>>],
   eof |-> [i \in PipeIds |-> FALSE],
   stale |-> FALSE,
   bytes |-> 0,
   calls |-> 0]

\* pipe_from_fd: the slot of handle fd, or NULL
pipe_from_fd(ps, fd) ==
  LET pipe_id == fd \div 2 IN
  IF pipe_id < 0 \/ pipe_id >= MAX_PIPES THEN NULL
  ELSE IF ps[pipe_id].in_use = 0 THEN NULL
  ELSE pipe_id

\* the first free slot pipe_create finds, or NULL
pipe_free_slot(ps) ==
  IF \E i \in PipeIds : ps[i].in_use = 0
    THEN CHOOSE i \in PipeIds :
           ps[i].in_use = 0 /\ \A j \in PipeIds : j < i => ps[j].in_use # 0
    ELSE NULL

\* pipe_create: the slot taken is reset (the buffer is not cleared)
pipe_create(ps) ==
  LET i == pipe_free_slot(ps) IN
  IF i = NULL THEN ps
  ELSE [ps EXCEPT ![i].in_use = 1, ![i].read_pos = 0, ![i].write_pos = 0,
                  ![i].count = 0, ![i].read_end_open = 1,
                  ![i].write_end_open = 1]

(* ------------------------------------------------------------------ *)
(* signal.c: the signal state of a process and the functions on it.    *)
(* A uint32_t bitmap is the set of the numbers of its set bits, 1<<sig *)
(* is {sig}.                                                           *)
(* ------------------------------------------------------------------ *)

SIGINT == 2
SIGKILL == 9
SIGCHLD == 17
SIGCONT == 18
SIGSTOP == 19
MAX_SIGNALS == 32
SIG_DFL == 0
SIG_IGN == 1
\* the address of a handler function of the caller
UserHandler == 2

Pids == 0 .. (MAX_PROCESSES - 1)

\* the state signal_init gives every pid
signal_init ==
  [i \in Pids |->
     [pending |-> {}, blocked |-> {},
      handlers |-> [j \in 0 .. (MAX_SIGNALS - 1) |-> SIG_DFL]]]

\* proc_get_pid: current_process ? current_process->pid : 0
proc_get_pid(s) ==
  IF s.current_process # NULL THEN s.proc_table[s.current_process].pid ELSE 0

\* signal_set(sig, handler) by the process pid: the new signal_states
signal_set(ss, pid, sig, handler) ==
  IF sig < 1 \/ sig >= MAX_SIGNALS THEN ss
  ELSE IF sig = SIGKILL \/ sig = SIGSTOP THEN ss
  ELSE IF pid >= MAX_PROCESSES THEN ss
  ELSE [ss EXCEPT ![pid].handlers[sig] = handler]

\* the value signal_set returns: the old handler, or SIG_DFL when it refuses
signal_set_ret(ss, pid, sig) ==
  IF sig < 1 \/ sig >= MAX_SIGNALS THEN SIG_DFL
  ELSE IF sig = SIGKILL \/ sig = SIGSTOP THEN SIG_DFL
  ELSE IF pid >= MAX_PROCESSES THEN SIG_DFL
  ELSE ss[pid].handlers[sig]

\* signal_send(pid, sig): the new signal_states
signal_send(ss, pid, sig) ==
  IF pid >= MAX_PROCESSES THEN ss
  ELSE IF sig < 1 \/ sig >= MAX_SIGNALS THEN ss
  ELSE [ss EXCEPT ![pid].pending = @ \cup {sig}]

signal_send_ret(pid, sig) ==
  IF pid >= MAX_PROCESSES \/ sig < 1 \/ sig >= MAX_SIGNALS THEN 0 - 1 ELSE 0

\* signal_block without lines 110-111
signal_block_keeps_mask(ss, pid, mask) ==
  IF pid >= MAX_PROCESSES THEN ss
  ELSE [ss EXCEPT ![pid].blocked = @ \cup mask]

\* signal_block(mask) by the process pid
signal_block(ss, pid, mask) ==
  IF pid >= MAX_PROCESSES THEN ss
  ELSE [ss EXCEPT ![pid].blocked = (@ \cup mask) \ {SIGKILL, SIGSTOP}]

\* signal_unblock(mask) by the process pid
signal_unblock(ss, pid, mask) ==
  IF pid >= MAX_PROCESSES THEN ss
  ELSE [ss EXCEPT ![pid].blocked = @ \ mask]

\* 148-184: the for loop of signal_check from sig on, on the signal state st
\* of the caller; ran lists the signals dispatched and what was run for each
\* ("none": the default action of CHLD, CONT and STOP)
RECURSIVE signal_check_loop(_, _, _, _)
signal_check_loop(sig, deliverable, st, ran) ==
  IF sig >= MAX_SIGNALS THEN [state |-> st, ran |-> ran]
  ELSE IF sig \notin deliverable
    THEN signal_check_loop(sig + 1, deliverable, st, ran)
  ELSE LET cleared == [st EXCEPT !.pending = @ \ {sig}]
           handler == st.handlers[sig] IN
    IF handler = SIG_IGN
      THEN signal_check_loop(sig + 1, deliverable, cleared, ran)
    ELSE IF handler = SIG_DFL
      THEN IF sig \in {SIGCHLD, SIGCONT, SIGSTOP}
             THEN [state |-> cleared,
                   ran |-> Append(ran, [sig |-> sig, act |-> "none"])]
             ELSE [state |-> cleared,
                   ran |-> Append(ran, [sig |-> sig, act |-> "proc_exit"])]
    ELSE [state |-> cleared,
          ran |-> Append(ran, [sig |-> sig, act |-> "handler"])]

\* signal_check taking every pending signal for deliverable
signal_check_blocked_too(st) ==
  LET deliverable == st.pending IN
  IF deliverable = {} THEN [state |-> st, ran |-> <<>>]
  ELSE signal_check_loop(1, deliverable, st, <<>>)

\* 140-146 of signal_check and its loop, on the signal state st of the caller
signal_check(st) ==
  LET deliverable == st.pending \ st.blocked IN
  IF deliverable = {} THEN [state |-> st, ran |-> <<>>]
  ELSE signal_check_loop(1, deliverable, st, <<>>)

(* ------------------------------------------------------------------ *)
(* memory.c: the kernel heap. A block is its header (address, size,    *)
(* free); the next pointers are the order of the sequence.             *)
(* ------------------------------------------------------------------ *)

HEAP_START == 1048576
HEAP_SIZE == 64
\* sizeof(block_t): uint32_t size, uint8_t free and padding, a pointer
HeaderSize == 12
\* the slack of line 34 below which a block is not split
SplitSlack == 16

\* the state after mm_init()
mm_init ==
  [heap |-> <<[addr |-> HEAP_START, size |-> HEAP_SIZE - HeaderSize, free |-> 1]>>,
   total_allocated |-> 0,
   total_free |-> HEAP_SIZE - HeaderSize]

\* the blocks of h the loop of kmalloc(size) stops at (lines 32-33, 48)
Fits(h, size) == {i \in 1 .. Len(h) : h[i].free = 1 /\ h[i].size >= size}
FirstFit(h, size) == CHOOSE i \in Fits(h, size) : \A j \in Fits(h, size) : i <= j

\* kmalloc(size) on the heap m (block list and counters): the new heap and
\* the pointer returned
kmalloc(m, size) ==
  IF Fits(m.heap, size) = {} THEN [m |-> m, ptr |-> 0]
  ELSE
    LET h == m.heap
        i == FirstFit(h, size)
        curr == h[i]
        split == curr.size > size + HeaderSize + SplitSlack
        taken == [curr EXCEPT !.free = 0, !.size = IF split THEN size ELSE @]
        new_block == [addr |-> curr.addr + HeaderSize + size,
                      size |-> curr.size - size - HeaderSize, free |-> 1]
        h2 == SubSeq(h, 1, i - 1) \o
              (IF split THEN <<taken, new_block>> ELSE <<taken>>) \o
              SubSeq(h, i + 1, Len(h))
    IN [m |-> [heap |-> h2,
               total_allocated |-> m.total_allocated + taken.size,
               total_free |-> m.total_free - taken.size],
        ptr |-> curr.addr + HeaderSize]

\* the block whose payload starts at ptr
BlockOf(h, ptr) == CHOOSE i \in 1 .. Len(h) : h[i].addr + HeaderSize = ptr

\* kfree without lines 58-59
kfree_keeps_counters(m, ptr) ==
  IF ptr = 0 THEN m
  ELSE [m EXCEPT !.heap[BlockOf(m.heap, ptr)].free = 1]

\* kfree(ptr) for NULL or a pointer to the payload of a block of the list
kfree(m, ptr) ==
  IF ptr = 0 THEN m
  ELSE LET i == BlockOf(m.heap, ptr) IN
       [m EXCEPT !.heap[i].free = 1,
                 !.total_allocated = @ - m.heap[i].size,
                 !.total_free = @ + m.heap[i].size]

(* ------------------------------------------------------------------ *)
(* paging.c: the page bitmap, the page directory and the page tables.  *)
(* Addresses are numbers; a table entry is PAGE_PRESENT and the frame  *)
(* number (address >> 12); a pointer to a table is the number of the   *)
(* physical page that holds it.                                        *)
(* ------------------------------------------------------------------ *)

PAGE_SIZE == 4096
PAGES_PER_TABLE == 2
TABLES_PER_DIR == 2
\* PHYS_MEMORY_SIZE / PAGE_SIZE
TOTAL_PAGES == 5
\* the pages of the first megabyte (line 106) and the end of the kernel
\* region (line 112)
LowPages == 1
ReservedPages == 2
\* the page of the kernel image that holds first_page_table
FirstTablePage == LowPages
\* the value of find_free_page when no page is free
NoPage == 0 - 1

PageNos == 0 .. (TOTAL_PAGES - 1)
ZeroTable == [i \in 0 .. (PAGES_PER_TABLE - 1) |-> [present |-> 0, frame |-> 0]]

\* the state after paging_init()
paging_init ==
  [page_bitmap |-> 0 .. (ReservedPages - 1),
   free_pages |-> TOTAL_PAGES - LowPages - (ReservedPages - LowPages),
   page_directory |->
     [d \in 0 .. (TABLES_PER_DIR - 1) |->
        IF d = 0 THEN [present |-> 1, table |-> FirstTablePage]
        ELSE [present |-> 0, table |-> 0]],
   ptmem |->
     [q \in PageNos |->
        IF q = FirstTablePage
          THEN [i \in 0 .. (PAGES_PER_TABLE - 1) |-> [present |-> 1, frame |-> i]]
          ELSE ZeroTable]]

\* find_free_page: the lowest page whose bit is clear
find_free_page(g) ==
  IF PageNos \ g.page_bitmap = {} THEN NoPage
  ELSE CHOOSE q \in PageNos \ g.page_bitmap :
         \A r \in PageNos \ g.page_bitmap : q <= r

\* page_alloc: the new state and the address returned
page_alloc(g) ==
  LET page == find_free_page(g) IN
  IF page = NoPage THEN [g |-> g, ret |-> 0]
  ELSE [g |-> [g EXCEPT !.page_bitmap = @ \cup {page}, !.free_pages = @ - 1],
        ret |-> page * PAGE_SIZE]

\* page_free without the test of line 91 that the bit is set
page_free_untested(g, phys_addr) ==
  LET page == phys_addr \div PAGE_SIZE IN
  IF page < TOTAL_PAGES
    THEN [g EXCEPT !.page_bitmap = @ \ {page}, !.free_pages = @ + 1]
    ELSE g

\* page_free(phys_addr)
page_free(g, phys_addr) ==
  LET page == phys_addr \div PAGE_SIZE IN
  IF page < TOTAL_PAGES /\ page \in g.page_bitmap
    THEN [g EXCEPT !.page_bitmap = @ \ {page}, !.free_pages = @ + 1]
    ELSE g

\* virt >> 22 and (virt >> 12) & 0x3FF
pd_index(virt) == virt \div (PAGE_SIZE * PAGES_PER_TABLE)
pt_index(virt) == (virt \div PAGE_SIZE) % PAGES_PER_TABLE

\* page_map(virt, phys, flags); the flags only add bits beside PAGE_PRESENT
page_map(g, virt, phys) ==
  LET have == g.page_directory[pd_index(virt)].present = 1
      a == IF have THEN [g |-> g, ret |-> 0] ELSE page_alloc(g)
      pt_page == a.ret \div PAGE_SIZE
      g1 == IF have THEN g
            ELSE [a.g EXCEPT !.ptmem[pt_page] = ZeroTable,
                             !.page_directory[pd_index(virt)] =
                                [present |-> 1, table |-> pt_page]]
  IN IF ~have /\ a.ret = 0 THEN a.g
     ELSE [g1 EXCEPT !.ptmem[g1.page_directory[pd_index(virt)].table][pt_index(virt)] =
                        [present |-> 1, frame |-> phys \div PAGE_SIZE]]

\* page_unmap(virt)
page_unmap(g, virt) ==
  IF g.page_directory[pd_index(virt)].present = 0 THEN g
  ELSE [g EXCEPT !.ptmem[g.page_directory[pd_index(virt)].table][pt_index(virt)] =
                    [present |-> 0, frame |-> 0]]

\* page_get_phys(virt)
page_get_phys(g, virt) ==
  IF g.page_directory[pd_index(virt)].present = 0 THEN 0
  ELSE LET e == g.ptmem[g.page_directory[pd_index(virt)].table][pt_index(virt)] IN
       IF e.present = 0 THEN 0
       ELSE e.frame * PAGE_SIZE + (virt % PAGE_SIZE)

(* ------------------------------------------------------------------ *)
(* arp.c: the ARP cache. A packet is the sequence of its bytes, byte k *)
(* of the C array being element k + 1; a MAC is a sequence of 6 bytes. *)
(* ------------------------------------------------------------------ *)

ARP_CACHE_SIZE == 2
\* our_ip as ne2000_init sets it, 10.0.0.2, and our_mac
our_ip == 167772162
our_mac == <<82, 84, 0, 18, 52, 86>>
ZeroMac == <<0, 0, 0, 0, 0, 0>>
ArpSlots == 0 .. (ARP_CACHE_SIZE - 1)

\* the state after arp_init()
arp_init ==
  [i \in ArpSlots |-> [ip |-> 0, mac |-> ZeroMac, timestamp |-> 0, valid |-> 0]]

\* the four bytes of a 32-bit value, most significant first, as lines
\* 118-121 store them, and the value lines 146-148 read from four bytes
BytesOf(x) ==
  <<(x \div 16777216) % 256, (x \div 65536) % 256, (x \div 256) % 256, x % 256>>
WordAt(packet, k) ==
  packet[k + 1] * 16777216 + packet[k + 2] * 65536 + packet[k + 3] * 256 + packet[k + 4]

\* arp_lookup(ip, mac): the value returned and the MAC copied out
arp_lookup(cache, ip) ==
  LET hits == {i \in ArpSlots : cache[i].valid = 1 /\ cache[i].ip = ip} IN
  IF hits = {} THEN [ret |-> 0 - 1, mac |-> ZeroMac]
  ELSE [ret |-> 0,
        mac |-> cache[CHOOSE i \in hits : \A j \in hits : i <= j].mac]

RECURSIVE arp_oldest(_, _, _, _)
\* 77-86: the loop that finds an empty or the oldest slot, from slot i on.
\* oldest_time starts at 0xFFFFFFFF; the largest integer of the checker
\* stands for it, every tick count explored being below both
arp_oldest(cache, i, oldest, oldest_time) ==
  IF i >= ARP_CACHE_SIZE THEN oldest
  ELSE IF cache[i].valid = 0 THEN i
  ELSE IF cache[i].timestamp < oldest_time
    THEN arp_oldest(cache, i + 1, i, cache[i].timestamp)
    ELSE arp_oldest(cache, i + 1, oldest, oldest_time)

\* arp_add that leaves an entry it finds as it is
arp_add_keeps_entry(cache, ip, mac, now) ==
  LET hits == {i \in ArpSlots : cache[i].valid = 1 /\ cache[i].ip = ip} IN
  IF hits # {} THEN cache
  ELSE [cache EXCEPT ![arp_oldest(cache, 0, 0, 2147483647)] =
          [ip |-> ip, mac |-> mac, timestamp |-> now, valid |-> 1]]

\* arp_add(ip, mac) at the tick count now
arp_add(cache, ip, mac, now) ==
  LET hits == {i \in ArpSlots : cache[i].valid = 1 /\ cache[i].ip = ip} IN
  IF hits # {}
    THEN [cache EXCEPT ![CHOOSE i \in hits : \A j \in hits : i <= j] =
            [@ EXCEPT !.mac = mac, !.timestamp = now]]
    ELSE [cache EXCEPT ![arp_oldest(cache, 0, 0, 2147483647)] =
            [ip |-> ip, mac |-> mac, timestamp |-> now, valid |-> 1]]

\* 159-188: the reply frame built for the sender of a request
arp_reply(sender_mac, sender_ip) ==
  sender_mac \o our_mac \o <<8, 6>> \o
  <<0, 1, 8, 0, 6, 4, 0, 2>> \o our_mac \o BytesOf(our_ip) \o
  sender_mac \o BytesOf(sender_ip)

\* arp_handle(packet, len): the new cache and the frames given to net_send
arp_handle(cache, packet, len, now) ==
  IF len < 28 THEN [cache |-> cache, sent |-> <<>>]
  ELSE
    LET opcode == packet[7] * 256 + packet[8]
        sender_mac == SubSeq(packet, 9, 14)
        sender_ip == WordAt(packet, 14)
        target_ip == WordAt(packet, 24)
    IN [cache |-> arp_add(cache, sender_ip, sender_mac, now),
        sent |-> IF opcode = 1 /\ target_ip = our_ip
                   THEN <<arp_reply(sender_mac, sender_ip)>> ELSE <<>>]

(* ------------------------------------------------------------------ *)
(* tcp.c: the socket table and the segments built and handled. The     *)
(* sequence numbers explored stay far below 2^32.                      *)
(* ------------------------------------------------------------------ *)

TCP_CLOSED == 0
TCP_LISTEN == 1
TCP_SYN_SENT == 2
TCP_SYN_RCVD == 3
TCP_ESTABLISHED == 4
TCP_FIN_WAIT1 == 5
TCP_FIN_WAIT2 == 6
TCP_CLOSE_WAIT == 7
TCP_CLOSING == 8
TCP_LAST_ACK == 9
TCP_TIME_WAIT == 10

TCP_FIN == 1
TCP_SYN == 2
TCP_RST == 4
TCP_PSH == 8
TCP_ACK == 16
TCP_URG == 32

MAX_TCP_SOCKETS == 2
TcpSlots == 0 .. (MAX_TCP_SOCKETS - 1)
\* sizeof(s->recv_buf), scaled down
RECV_BUF_SIZE == 4
\* the gateway ne2000_init sets, 10.0.0.1
gateway_ip == 167772161

\* flags & f, for a single flag f
HasFlag(flags, f) == (flags \div f) % 2 = 1

\* the two bytes of a 16-bit value, most significant first
Word16(x) == <<(x \div 256) % 256, x % 256>>

RECURSIVE WordSum(_, _)
\* the sum of the 16-bit big-endian words of bytes from word i on
WordSum(bytes, i) ==
  IF 2 * i + 2 > Len(bytes) THEN 0
  ELSE bytes[2 * i + 1] * 256 + bytes[2 * i + 2] + WordSum(bytes, i + 1)

RECURSIVE Fold16(_)
\* while (sum >> 16) sum = (sum & 0xFFFF) + (sum >> 16)
Fold16(sum) ==
  IF sum \div 65536 > 0 THEN Fold16((sum % 65536) + (sum \div 65536)) ELSE sum

\* tcp_checksum(src_ip, dst_ip, tcp_data, tcp_len) for an even tcp_len
tcp_checksum(src_ip, dst_ip, tcp_data) ==
  65535 - Fold16(((src_ip \div 65536) % 65536) + (src_ip % 65536) +
                 ((dst_ip \div 65536) % 65536) + (dst_ip % 65536) +
                 6 + Len(tcp_data) + WordSum(tcp_data, 0))

\* a socket of the table before tcp_socket has ever taken it
FreeSocket ==
  [in_use |-> 0, state |-> TCP_CLOSED, local_port |-> 0, remote_port |-> 0,
   remote_ip |-> 0, seq_num |-> 0, ack_num |-> 0, recv_window |-> 0,
   recv_buf |-> <<>>]

\* the table as the kernel image holds it; tcp_init is never called
tcp_init == [i \in TcpSlots |-> FreeSocket]

\* tcp_socket(): the table, tcp_isn and the value returned
tcp_socket(socks, isn) ==
  LET free == {i \in TcpSlots : socks[i].in_use = 0} IN
  IF free = {} THEN [socks |-> socks, isn |-> isn, ret |-> 0 - 1]
  ELSE LET i == CHOOSE j \in free : \A k \in free : j <= k IN
    [socks |-> [socks EXCEPT ![i] =
                  [@ EXCEPT !.in_use = 1, !.state = TCP_CLOSED, !.local_port = 0,
                            !.remote_port = 0, !.remote_ip = 0, !.seq_num = isn,
                            !.recv_buf = <<>>, !.recv_window = 4096]],
     isn |-> isn + 1, ret |-> i]

\* tcp_bind(sock, port)
tcp_bind(socks, sock, port) ==
  IF sock < 0 \/ sock >= MAX_TCP_SOCKETS THEN socks
  ELSE [socks EXCEPT ![sock].local_port = port]

\* tcp_listen(sock)
tcp_listen(socks, sock) ==
  IF sock < 0 \/ sock >= MAX_TCP_SOCKETS THEN socks
  ELSE [socks EXCEPT ![sock].state = TCP_LISTEN]

\* arp_request(target_ip): the frame given to net_send
arp_request(target_ip) ==
  <<255, 255, 255, 255, 255, 255>> \o our_mac \o <<8, 6>> \o
  <<0, 1, 8, 0, 6, 4, 0, 1>> \o our_mac \o BytesOf(our_ip) \o
  ZeroMac \o BytesOf(target_ip)

\* arp_resolve(ip, mac, timeout_ms). answer is the sender MAC of the ARP
\* reply that net_poll hands to arp_handle during the wait, or <<>> when
\* none arrives before the timeout.
arp_resolve(cache, ip, now, answer) ==
  LET target == IF ip \div 256 # our_ip \div 256 THEN gateway_ip ELSE ip
      hit == arp_lookup(cache, target)
  IN IF hit.ret = 0
       THEN [cache |-> cache, sent |-> <<>>, ret |-> 0, mac |-> hit.mac]
     ELSE IF answer = <<>>
       THEN [cache |-> cache, sent |-> <<arp_request(target)>>,
             ret |-> 0 - 1, mac |-> ZeroMac]
     ELSE LET reply == <<0, 1, 8, 0, 6, 4, 0, 2>> \o answer \o BytesOf(target) \o
                       our_mac \o BytesOf(our_ip)
              got == arp_handle(cache, reply, 28, now)
          IN [cache |-> got.cache, sent |-> <<arp_request(target)>> \o got.sent,
              ret |-> 0, mac |-> arp_lookup(got.cache, target).mac]

\* tcp_send_segment(sock, flags, NULL, 0) for the socket s: the ARP cache,
\* the frames given to net_send and the value returned
tcp_send_segment(s, flags, cache, now, answer) ==
  LET res == arp_resolve(cache, s.remote_ip, now, answer)
      ip0 == <<69, 0>> \o Word16(40) \o <<0, 0, 64, 0, 64, 6, 0, 0>> \o
             BytesOf(our_ip) \o BytesOf(s.remote_ip)
      sum == Fold16(WordSum(ip0, 0))
      ip == [ip0 EXCEPT ![11] = ((65535 - sum) \div 256) % 256,
                        ![12] = (65535 - sum) % 256]
      tcp0 == Word16(s.local_port) \o Word16(s.remote_port) \o
              BytesOf(s.seq_num) \o BytesOf(s.ack_num) \o <<80, flags>> \o
              Word16(s.recv_window) \o <<0, 0, 0, 0>>
      csum == tcp_checksum(our_ip, s.remote_ip, tcp0)
      tcp == [tcp0 EXCEPT ![17] = (csum \div 256) % 256, ![18] = csum % 256]
  IN IF res.ret # 0
       THEN [cache |-> res.cache, sent |-> res.sent, ret |-> 0 - 1]
       ELSE [cache |-> res.cache,
             sent |-> res.sent \o <<res.mac \o our_mac \o <<8, 0>> \o ip \o tcp>>,
             ret |-> 0]

\* tcp_close(sock)
tcp_close(socks, sock, cache, now, answer) ==
  IF sock < 0 \/ sock >= MAX_TCP_SOCKETS
    THEN [socks |-> socks, cache |-> cache, sent |-> <<>>]
  ELSE LET s == socks[sock]
           out == IF s.state = TCP_ESTABLISHED
                    THEN tcp_send_segment(s, TCP_FIN + TCP_ACK, cache, now, answer)
                    ELSE [cache |-> cache, sent |-> <<>>, ret |-> 0]
       IN [socks |-> [socks EXCEPT ![sock] =
                        [@ EXCEPT !.seq_num = IF s.state = TCP_ESTABLISHED
                                                THEN @ + 1 ELSE @,
                                  !.in_use = 0, !.state = TCP_CLOSED]],
           cache |-> out.cache, sent |-> out.sent]

\* the search without its test of in_use
tcp_match_unused_too(socks, src_port, dst_port, src_ip) ==
  LET hits == {i \in TcpSlots :
                 /\ socks[i].local_port = dst_port
                 /\ \/ socks[i].state = TCP_LISTEN
                    \/ socks[i].remote_port = src_port /\ socks[i].remote_ip = src_ip}
  IN IF hits = {} THEN 0 - 1 ELSE CHOOSE i \in hits : \A j \in hits : i <= j

\* 357-371: the socket the search settles on, -1 when none matches
tcp_match(socks, src_port, dst_port, src_ip) ==
  LET hits == {i \in TcpSlots :
                 /\ socks[i].in_use # 0
                 /\ socks[i].local_port = dst_port
                 /\ \/ socks[i].state = TCP_LISTEN
                    \/ socks[i].remote_port = src_port /\ socks[i].remote_ip = src_ip}
  IN IF hits = {} THEN 0 - 1 ELSE CHOOSE i \in hits : \A j \in hits : i <= j

\* tcp_handle(packet, len, src_ip): the table, the ARP cache and the frames
\* given to net_send
tcp_handle(socks, cache, packet, len, src_ip, now, answer) ==
  LET same == [socks |-> socks, cache |-> cache, sent |-> <<>>] IN
  IF len < 20 THEN same
  ELSE
    LET src_port == packet[1] * 256 + packet[2]
        dst_port == packet[3] * 256 + packet[4]
        seq == WordAt(packet, 4)
        flags == packet[14]
        data_offset == (packet[13] \div 16) * 4
        sock == tcp_match(socks, src_port, dst_port, src_ip)
    IN IF sock < 0 THEN same
    ELSE
      LET s == socks[sock]
          \* ack_num = seq + 1, the ACK sent, and the state entered
          Acked(to) ==
            LET s1 == [s EXCEPT !.ack_num = seq + 1]
                out == tcp_send_segment(s1, TCP_ACK, cache, now, answer)
            IN [socks |-> [socks EXCEPT ![sock] = [s1 EXCEPT !.state = to]],
                cache |-> out.cache, sent |-> out.sent]
          To(to) == [same EXCEPT !.socks = [socks EXCEPT ![sock].state = to]]
      IN
      CASE s.state = TCP_LISTEN /\ HasFlag(flags, TCP_SYN) ->
             LET s1 == [s EXCEPT !.remote_ip = src_ip, !.remote_port = src_port,
                                 !.ack_num = seq + 1, !.state = TCP_SYN_RCVD]
                 out == tcp_send_segment(s1, TCP_SYN + TCP_ACK, cache, now, answer)
             IN [socks |-> [socks EXCEPT ![sock] = [s1 EXCEPT !.seq_num = @ + 1]],
                 cache |-> out.cache, sent |-> out.sent]
        [] s.state = TCP_SYN_SENT /\ HasFlag(flags, TCP_SYN) /\ HasFlag(flags, TCP_ACK) ->
             Acked(TCP_ESTABLISHED)
        [] s.state = TCP_SYN_RCVD /\ HasFlag(flags, TCP_ACK) ->
             To(TCP_ESTABLISHED)
        [] s.state = TCP_ESTABLISHED /\ HasFlag(flags, TCP_FIN) ->
             Acked(TCP_CLOSE_WAIT)
        [] s.state = TCP_ESTABLISHED /\ ~HasFlag(flags, TCP_FIN) /\ HasFlag(flags, TCP_ACK) ->
             LET data_len == (len - data_offset) % 65536
                 room == RECV_BUF_SIZE - Len(s.recv_buf)
                 copy == IF data_len < room THEN data_len ELSE room
                 s1 == [s EXCEPT !.recv_buf = @ \o SubSeq(packet, data_offset + 1,
                                                          data_offset + copy),
                                 !.ack_num = @ + data_len]
                 out == tcp_send_segment(s1, TCP_ACK, cache, now, answer)
             IN IF data_len > 0
                  THEN [socks |-> [socks EXCEPT ![sock] = s1],
                        cache |-> out.cache, sent |-> out.sent]
                  ELSE same
        [] s.state = TCP_FIN_WAIT1 /\ HasFlag(flags, TCP_FIN) ->
             Acked(TCP_TIME_WAIT)
        [] s.state = TCP_FIN_WAIT1 /\ ~HasFlag(flags, TCP_FIN) /\ HasFlag(flags, TCP_ACK) ->
             To(TCP_FIN_WAIT2)
        [] s.state = TCP_FIN_WAIT2 /\ HasFlag(flags, TCP_FIN) ->
             Acked(TCP_TIME_WAIT)
        [] s.state = TCP_LAST_ACK /\ HasFlag(flags, TCP_ACK) ->
             [same EXCEPT !.socks = [socks EXCEPT ![sock].state = TCP_CLOSED,
                                                  ![sock].in_use = 0]]
        [] OTHER -> same

\* tcp_memmove(dest, src, n) with dest = recv_buf and src = recv_buf + copy:
\* dest is below src, so the loop of lines 87-88 runs upwards and reads
\* every byte before it is overwritten
tcp_memmove(buf, copy, n) == [i \in 1 .. n |-> buf[copy + i]]

\* mutant of tcp_recv: the bytes that stay are not moved to the front
tcp_recv_no_shift(socks, sock, max_len) ==
  IF sock < 0 \/ sock >= MAX_TCP_SOCKETS
    THEN [socks |-> socks, ret |-> 0 - 1, buffer |-> <<>>]
  ELSE LET s == socks[sock]
           recv_len == Len(s.recv_buf)
           copy == IF recv_len < max_len THEN recv_len ELSE max_len
       IN IF recv_len = 0
            THEN [socks |-> socks, ret |-> 0, buffer |-> <<>>]
            ELSE [socks |-> [socks EXCEPT ![sock].recv_buf =
                                             SubSeq(s.recv_buf, 1, recv_len - copy)],
                  ret |-> copy, buffer |-> SubSeq(s.recv_buf, 1, copy)]

\* tcp_recv(sock, buffer, max_len) after its call of net_poll: the table,
\* the value returned and the bytes copied to buffer
tcp_recv(socks, sock, max_len) ==
  IF sock < 0 \/ sock >= MAX_TCP_SOCKETS
    THEN [socks |-> socks, ret |-> 0 - 1, buffer |-> <<>>]
  ELSE LET s == socks[sock]
           recv_len == Len(s.recv_buf)
           copy == IF recv_len < max_len THEN recv_len ELSE max_len
       IN IF recv_len = 0
            THEN [socks |-> socks, ret |-> 0, buffer |-> <<>>]
            ELSE [socks |-> [socks EXCEPT ![sock].recv_buf =
                               IF copy < recv_len
                                 THEN tcp_memmove(s.recv_buf, copy, recv_len - copy)
                                 ELSE <<>>],
                  ret |-> copy, buffer |-> SubSeq(s.recv_buf, 1, copy)]

(* ------------------------------------------------------------------ *)
(* ip.c and ne2000.c: the way of a received frame                      *)
(* ------------------------------------------------------------------ *)

ETHERTYPE_IP == 2048
ETHERTYPE_ARP == 2054

\* ip_handle(packet, len): the handler the payload is given to, "none" when
\* the packet is dropped or its protocol has no handler
ip_handle(packet, len) ==
  IF len < 20 THEN "none"
  ELSE
    LET version == (packet[1] \div 16) % 16
        ihl == packet[1] % 16
        header_len == ihl * 4
        protocol == packet[10]
        dest_ip == WordAt(packet, 16)
    IN IF version # 4 THEN "none"
       ELSE IF len < header_len THEN "none"
       \* dest_ip != our_ip && dest_ip != 0xFFFFFFFF
       ELSE IF dest_ip # our_ip /\ SubSeq(packet, 17, 20) # <<255, 255, 255, 255>>
         THEN "none"
       ELSE CASE protocol = 1 -> "icmp_handle"
              [] protocol = 17 -> "udp_handle"
              \* case 6: TCP - not implemented
              [] protocol = 6 -> "none"
              [] OTHER -> "none"

RECURSIVE net_poll(_, _, _)
\* net_poll(): every frame of the ring, oldest first, given to arp_handle
\* or ip_handle; handlers lists what each frame reached. The frames
\* explored carry no ICMP and no UDP.
net_poll(cache, ring, now) ==
  IF ring = <<>> THEN [cache |-> cache, sent |-> <<>>, handlers |-> <<>>]
  ELSE
    LET buffer == Head(ring)
        len == Len(buffer)
        ethertype == buffer[13] * 256 + buffer[14]
        got == IF len < 14
                 THEN [cache |-> cache, sent |-> <<>>, handler |-> "none"]
               ELSE IF ethertype = ETHERTYPE_ARP
                 THEN arp_handle(cache, SubSeq(buffer, 15, len), len - 14, now)
                        @@ [handler |-> "arp_handle"]
               ELSE IF ethertype = ETHERTYPE_IP
                 THEN [cache |-> cache, sent |-> <<>>,
                       handler |-> ip_handle(SubSeq(buffer, 15, len), len - 14)]
               ELSE [cache |-> cache, sent |-> <<>>, handler |-> "none"]
        rest == net_poll(got.cache, Tail(ring), now)
    IN [cache |-> rest.cache, sent |-> got.sent \o rest.sent,
        handlers |-> <<got.handler>> \o rest.handlers]

(* ------------------------------------------------------------------ *)
(* shell_pipe.c: the operator parser. A line is the sequence of its    *)
(* characters; the terminating NUL is what CharAt gives past its end.  *)
(* ------------------------------------------------------------------ *)

NUL == ""
CharAt(cmd, k) == IF k >= 1 /\ k <= Len(cmd) THEN cmd[k] ELSE NUL

RECURSIVE skip_quoted_either(_, _, _)
\* the loop at 105-108 stopping at a quote of either kind
skip_quoted_either(cmd, k, q) ==
  IF CharAt(cmd, k) # NUL /\ CharAt(cmd, k) \notin {"\"", "'"}
    THEN skip_quoted_either(cmd, k + 1, q) ELSE k

RECURSIVE skip_quoted(_, _, _)
\* 105-108 and 118-121: while (*p && *p != q) p++, from element k
skip_quoted(cmd, k, q) ==
  IF CharAt(cmd, k) # NUL /\ CharAt(cmd, k) # q
    THEN skip_quoted(cmd, k + 1, q) ELSE k

RECURSIVE find_operator_from(_, _)
\* the loop of find_operator with p at element k (i = k - 1)
find_operator_from(cmd, k) ==
  LET p0 == CharAt(cmd, k)
      p1 == CharAt(cmd, k + 1)
      Found(type) == [ret |-> type, pos |-> k - 1]
  IN IF p0 = NUL THEN [ret |-> 0, pos |-> 0 - 1]
     ELSE IF p0 = "\"" \/ p0 = "'"
       THEN LET e == skip_quoted(cmd, k + 1, p0) IN
            find_operator_from(cmd, IF CharAt(cmd, e) # NUL THEN e + 1 ELSE e)
     ELSE IF p0 = "|" /\ p1 = "|" THEN Found(6)
     ELSE IF p0 = "&" /\ p1 = "&" THEN Found(5)
     ELSE IF p0 = ">" /\ p1 = ">" THEN Found(3)
     ELSE IF p0 = "|" THEN Found(1)
     ELSE IF p0 = ">" THEN Found(2)
     ELSE IF p0 = "<" THEN Found(4)
     ELSE IF p0 = ";" THEN Found(7)
     ELSE find_operator_from(cmd, k + 1)

\* find_operator(cmd, &pos): the value returned and *pos, -1 standing for
\* a *pos that was not written
find_operator(cmd) == find_operator_from(cmd, 1)

(* ------------------------------------------------------------------ *)
(* vga.c, kprintf and the capture buffer of shell_pipe.c. The screen   *)
(* is the character of each cell with the cursor; a string is the      *)
(* sequence of its characters.                                         *)
(* ------------------------------------------------------------------ *)

VGA_WIDTH == 2
VGA_HEIGHT == 2
PIPE_BUF_SIZE == 3
Cells2 == 0 .. (VGA_WIDTH * VGA_HEIGHT - 1)

\* the screen after vga_clear()
vga_clear ==
  [vga_buffer |-> [i \in Cells2 |-> " "], cursor_x |-> 0, cursor_y |-> 0]

\* vga_scroll()
vga_scroll(v) ==
  [v EXCEPT !.vga_buffer =
              [i \in Cells2 |-> IF i < (VGA_HEIGHT - 1) * VGA_WIDTH
                                  THEN v.vga_buffer[i + VGA_WIDTH] ELSE " "],
            !.cursor_y = VGA_HEIGHT - 1]

\* the character '\b'
BS == "^H"

\* vga_putchar(c)
vga_putchar(v, c) ==
  LET v1 == CASE c = "\n" -> [v EXCEPT !.cursor_x = 0, !.cursor_y = @ + 1]
              [] c = "\r" -> [v EXCEPT !.cursor_x = 0]
              [] c = "\t" -> [v EXCEPT !.cursor_x = ((@ + 8) \div 8) * 8]
              [] c = BS -> [v EXCEPT !.cursor_x = IF @ > 0 THEN @ - 1 ELSE @]
              [] OTHER -> [v EXCEPT !.vga_buffer[v.cursor_y * VGA_WIDTH + v.cursor_x] = c,
                                    !.cursor_x = @ + 1]
      v2 == IF v1.cursor_x >= VGA_WIDTH
              THEN [v1 EXCEPT !.cursor_x = 0, !.cursor_y = @ + 1] ELSE v1
  IN IF v2.cursor_y >= VGA_HEIGHT THEN vga_scroll(v2) ELSE v2

RECURSIVE vga_puts(_, _)
\* vga_putchar for each character of str in turn: the first half of str,
\* which leaves the cursor on the screen, then the rest
vga_puts(v, str) ==
  IF str = <<>> THEN v
  ELSE IF Len(str) = 1 THEN vga_putchar(v, str[1])
  ELSE LET h == Len(str) \div 2
           w == vga_puts(v, SubSeq(str, 1, h))
       IN CASE w.cursor_y < VGA_HEIGHT -> vga_puts(w, SubSeq(str, h + 1, Len(str)))

RECURSIVE DecimalDigits(_)
\* 286-291: the digits of n > 0, most significant first
DecimalDigits(n) ==
  IF n = 0 THEN <<>>
  ELSE DecimalDigits(n \div 10) \o
       << <<"0", "1", "2", "3", "4", "5", "6", "7", "8", "9">>[(n % 10) + 1] >>

RECURSIVE kprintf(_, _)
\* kprintf(fmt, ...): the characters given to vga_putchar, for the
\* conversions %s, %d, %c and %%; args are the variable arguments. The
\* characters before the first '%' of fmt are put out as they are.
kprintf(fmt, args) ==
  LET marks == {i \in 1 .. Len(fmt) : fmt[i] = "%"} IN
  IF marks = {} THEN fmt
  ELSE LET m == CHOOSE i \in marks : \A j \in marks : i <= j
           plain == SubSeq(fmt, 1, m - 1)
       IN IF Len(fmt) = m THEN plain
          ELSE LET conv == fmt[m + 1]
                   rest == SubSeq(fmt, m + 2, Len(fmt))
               IN plain \o
                  CASE conv = "s" -> Head(args) \o kprintf(rest, Tail(args))
                    [] conv = "d" ->
                         LET n == Head(args) IN
                         (IF n < 0 THEN <<"-">> ELSE <<>>) \o
                         (IF n = 0 THEN <<"0">>
                           ELSE DecimalDigits(IF n < 0 THEN 0 - n ELSE n)) \o
                         kprintf(rest, Tail(args))
                    [] conv = "c" -> <<Head(args)>> \o kprintf(rest, Tail(args))
                    [] conv = "%" -> <<"%">> \o kprintf(rest, args)
                    [] OTHER -> kprintf(rest, args)

\* pipe_write_char(c)
pipe_write_char(buf, c) ==
  IF Len(buf) < PIPE_BUF_SIZE - 1 THEN Append(buf, c) ELSE buf

(* ------------------------------------------------------------------ *)
(* ramfs.c: the node table. A name, a path and the data of a file are  *)
(* the sequences of their characters; the data of a node are its bytes *)
(* up to the last one ever written, those after them being zero.       *)
(* ------------------------------------------------------------------ *)

MAX_NODES == 15
MAX_NAME == 32
MAX_DATA == 4096
NODE_FREE == 0
NODE_FILE == 1
NODE_DIR == 2
NodeIds == 0 .. (MAX_NODES - 1)

\* a node after memset(.., 0, ..)
ZeroNode ==
  [name |-> <<>>, type |-> NODE_FREE, parent |-> 0, size |-> 0, data |-> <<>>,
   created |-> 0, modified |-> 0]

\* strncpy(dst, src, n) into a zeroed dst: the characters dst holds
strncpy(src, n) == SubSeq(src, 1, IF Len(src) < n THEN Len(src) ELSE n)

\* memcpy(dst, src, len): the bytes dst holds
memcpy(dst, src, len) == SubSeq(src, 1, len) \o SubSeq(dst, len + 1, Len(dst))

\* alloc_node(), the tick counter reading now: the table and the index
\* returned
alloc_node(ns, now) ==
  LET free == {i \in 1 .. (MAX_NODES - 1) : ns[i].type = NODE_FREE} IN
  IF free = {} THEN [nodes |-> ns, idx |-> 0 - 1]
  ELSE LET i == CHOOSE x \in free : \A y \in free : x <= y IN
       [nodes |-> [ns EXCEPT ![i] = [ZeroNode EXCEPT !.created = now,
                                                     !.modified = now]],
        idx |-> i]

\* find_node_index(parent, name)
find_node_index(ns, parent, name) ==
  LET found == {i \in NodeIds : /\ ns[i].type # NODE_FREE
                                /\ ns[i].parent = parent
                                /\ ns[i].name = name} IN
  IF found = {} THEN 0 - 1 ELSE CHOOSE x \in found : \A y \in found : x <= y

RECURSIVE component_len(_, _, _)
\* 228-230: the number of characters copied to component from element k
\* on, i being the number copied so far
component_len(path, k, i) ==
  IF CharAt(path, k) # NUL /\ CharAt(path, k) # "/" /\ i < MAX_NAME - 1
    THEN component_len(path, k + 1, i + 1) ELSE i

\* 240-245 with no step made: the component ".." leaving dir as it is
resolve_dotdot_stays(ns, dir) == dir

\* 240-245: the directory reached from dir by the component ".."
resolve_dotdot(ns, dir) == IF ns[dir].parent >= 0 THEN ns[dir].parent ELSE dir

RECURSIVE resolve_from(_, _, _, _)
\* the loop of resolve_path (225-256) with p at element k of path
resolve_from(ns, dir, path, k) ==
  IF CharAt(path, k) = NUL THEN dir
  ELSE LET n == component_len(path, k, 0)
           component == SubSeq(path, k, k + n - 1)
           p == IF CharAt(path, k + n) = "/" THEN k + n + 1 ELSE k + n
       IN IF component = <<>> THEN resolve_from(ns, dir, path, p)
          ELSE IF component = <<".">> THEN resolve_from(ns, dir, path, p)
          ELSE IF component = <<".", ".">>
            THEN resolve_from(ns, resolve_dotdot(ns, dir), path, p)
          ELSE LET idx == find_node_index(ns, dir, component) IN
               IF idx < 0 THEN 0 - 1 ELSE resolve_from(ns, idx, path, p)

\* resolve_path(path) with current_dir = cd
resolve_path(ns, cd, path) ==
  IF path = <<>> \/ path = <<"/">> THEN 0
  ELSE IF path[1] = "/" THEN resolve_from(ns, 0, path, 2)
  ELSE resolve_from(ns, cd, path, 1)

\* 58-65, 71-76, ..: a node of fs_init, made if alloc_node gives one
fs_init_node(ns, type, name, parent, data) ==
  LET a == alloc_node(ns, 0) IN
  IF a.idx > 0
    THEN [a.nodes EXCEPT ![a.idx].type = type, ![a.idx].name = name,
                         ![a.idx].parent = parent, ![a.idx].data = data,
                         ![a.idx].size = Len(data)]
    ELSE ns

\* the loops 58-65, 112-121 and 131-140 over a list of names: alloc_node
\* gives the free nodes in the order of their indices, one to each name
\* in turn while any is left
fs_init_list(ns, type, names, parent, data) ==
  LET free == {i \in 1 .. (MAX_NODES - 1) : ns[i].type = NODE_FREE}
      rank(i) == Cardinality({j \in free : j <= i})
  IN [i \in NodeIds |->
        IF i \in free /\ rank(i) <= Len(names)
          THEN [ZeroNode EXCEPT !.type = type,
                                !.name = strncpy(names[rank(i)], MAX_NAME - 1),
                                !.parent = parent, !.data = data,
                                !.size = Len(data)]
          ELSE ns[i]]

fhs_dirs ==
  << <<"b", "i", "n">>, <<"s", "b", "i", "n">>, <<"e", "t", "c">>, <<"v", "a",
        "r">>, <<"t", "m", "p">>, <<"h", "o", "m", "e">>, <<"r", "o", "o",
        "t">>,
    <<"u", "s", "r">>, <<"l", "i", "b">>, <<"d", "e", "v">>, <<"p", "r", "o",
          "c">>, <<"m", "n", "t">>, <<"o", "p", "t">> >>

bin_cmds ==
  << <<"l", "s">>, <<"c", "a", "t">>, <<"c", "d">>, <<"p", "w", "d">>, <<"m",
        "k", "d", "i", "r">>, <<"t", "o", "u", "c", "h">>, <<"r", "m">>,
    <<"c", "p">>, <<"m", "v">>, <<"e", "c", "h", "o">>, <<"c", "l", "e", "a",
          "r">>, <<"h", "e", "l", "p">>, <<"m", "a", "n">>, <<"h", "e", "a",
          "d">>,
    <<"t", "a", "i", "l">>, <<"w", "c">>, <<"g", "r", "e", "p">>, <<"h", "i",
          "s", "t", "o", "r", "y">>, <<"a", "l", "i", "a", "s">>, <<"e", "n",
          "v">>,
    <<"e", "x", "p", "o", "r", "t">> >>

sbin_cmds ==
  << <<"r", "e", "b", "o", "o", "t">>, <<"s", "h", "u", "t", "d", "o", "w",
        "n">>, <<"h", "a", "l", "t">>, <<"i", "n", "i", "t">>, <<"m", "o", "u",
        "n", "t">>, <<"u", "m", "o", "u", "n", "t">>,
    <<"i", "f", "c", "o", "n", "f", "i", "g">>, <<"r", "o", "u", "t", "e">>,
          <<"i", "p", "t", "a", "b", "l", "e", "s">>, <<"m", "o", "d", "p",
          "r", "o", "b", "e">> >>

\* 50-55: the table cleared and the root made
fs_init_root ==
  [i \in NodeIds |->
               IF i = 0 THEN [ZeroNode EXCEPT !.type = NODE_DIR,
                     !.name = <<"/">>,
                                              !.parent = 0 - 1]
               ELSE ZeroNode]

\* 58-65: the directories of the root
fs_init_fhs(ns) ==
  fs_init_list(ns, NODE_DIR, fhs_dirs, 0, <<>>)

\* /var/log, made if var is found
fs_init_log(ns) ==
  LET var_idx == find_node_index(ns, 0, <<"v", "a", "r">>) IN
  IF var_idx > 0 THEN fs_init_node(ns, NODE_DIR, <<"l", "o", "g">>,
            var_idx, <<>>)
            ELSE ns

\* /home/guest, made if home is found
fs_init_guest(ns) ==
  LET home_idx == find_node_index(ns, 0, <<"h", "o", "m", "e">>) IN
  IF home_idx > 0
              THEN fs_init_node(ns, NODE_DIR, <<"g", "u", "e", "s", "t">>,
                    home_idx, <<>>)
            ELSE ns

\* /readme.txt
fs_init_readme(ns) ==
  fs_init_node(ns, NODE_FILE, <<"r", "e", "a", "d", "m", "e", ".",
            "t", "x", "t">>, 0,
              <<"W", "e", "l", "c", "o", "m", "e", " ", "t", "o", " ", "N",
                    "a", "n", "o", "S", "e", "c", " ", "O", "S", "!", "\n",
                    "=", "=", "=", "=", "=", "=", "=", "=", "=", "=", "=", "=",
                    "=", "=", "=", "=", "=", "=", "=", "=", "=", "=", "\n",
                    "\n", "T", "h", "i", "s", " ", "i", "s", " ", "a", " ",
                    "c", "u", "s", "t", "o", "m", " ", "o", "p", "e", "r", "a",
                    "t", "i", "n", "g", " ", "s", "y", "s", "t", "e", "m", ".",
                    "\n", "T", "y", "p", "e", " ", "'", "h", "e", "l", "p",
                    "'", " ", "f", "o", "r", " ", "a", "v", "a", "i", "l", "a",
                    "b", "l", "e", " ", "c", "o", "m", "m", "a", "n", "d", "s",
                    ".", "\n">>)

\* the files of /bin, made if bin is found
fs_init_bin(ns) ==
  LET bin_idx == find_node_index(ns, 0, <<"b", "i", "n">>) IN
  IF bin_idx > 0
              THEN fs_init_list(ns, NODE_FILE, bin_cmds, bin_idx,
                     <<"#", "!", "/", "b", "i", "n", "/", "s", "h", "\n", "#",
                           " ", "N", "a", "n", "o", "S", "e", "c", " ", "b",
                           "u", "i", "l", "t", "i", "n", "\n">>)
            ELSE ns

\* the files of /sbin, made if sbin is found
fs_init_sbin(ns) ==
  LET sbin_idx == find_node_index(ns, 0, <<"s", "b", "i", "n">>) IN
  IF sbin_idx > 0
              THEN fs_init_list(ns, NODE_FILE, sbin_cmds, sbin_idx,
                     <<"#", "!", "/", "b", "i", "n", "/", "s", "h", "\n", "#",
                           " ", "N", "a", "n", "o", "S", "e", "c", " ", "s",
                           "y", "s", "t", "e", "m", " ", "c", "m", "d",
                           "\n">>)
            ELSE ns

\* hostname, passwd and motd in /etc, made if etc is found
fs_init_etc(ns) ==
  LET etc_idx == find_node_index(ns, 0, <<"e", "t", "c">>) IN
  IF etc_idx > 0
              THEN fs_init_node(
                     fs_init_node(
                       fs_init_node(ns, NODE_FILE, <<"h", "o", "s", "t", "n",
                             "a", "m", "e">>, etc_idx,
                                    <<"n", "a", "n", "o", "s", "e", "c",
                                          "\n">>),
                       NODE_FILE, <<"p", "a", "s", "s", "w", "d">>, etc_idx,
                       <<"r", "o", "o", "t", ":", "x", ":", "0", ":", "0", ":",
                             "r", "o", "o", "t", ":", "/", "r", "o", "o", "t",
                             ":", "/", "b", "i", "n", "/", "s", "h", "\n", "g",
                             "u", "e", "s", "t", ":", "x", ":", "1", "0", "0",
                             "0", ":", "1", "0", "0", "0", ":", "G", "u", "e",
                             "s", "t", ":", "/", "h", "o", "m", "e", "/", "g",
                             "u", "e", "s", "t", ":", "/", "b", "i", "n", "/",
                             "s", "h", "\n">>),
                     NODE_FILE, <<"m", "o", "t", "d">>, etc_idx, <<"W", "e",
                           "l", "c", "o", "m", "e", " ", "t", "o", " ", "N",
                           "a", "n", "o", "S", "e", "c", " ", "O", "S", "!",
                           "\n">>)
            ELSE ns

\* fs_init(): the table and current_dir
fs_init ==
  [nodes |-> fs_init_etc(fs_init_sbin(fs_init_bin(fs_init_readme(
               fs_init_guest(fs_init_log(fs_init_fhs(fs_init_root))))))),
   current_dir |-> 0]

\* fs_mkdir(name): the table and the value returned
fs_mkdir(ns, cd, name, now) ==
  IF find_node_index(ns, cd, name) >= 0 THEN [nodes |-> ns, ret |-> 0 - 1]
  ELSE LET a == alloc_node(ns, now) IN
       IF a.idx < 0 THEN [nodes |-> ns, ret |-> 0 - 1]
       ELSE [nodes |-> [a.nodes EXCEPT ![a.idx].type = NODE_DIR,
                                       ![a.idx].name = strncpy(name, MAX_NAME - 1),
                                       ![a.idx].parent = cd],
             ret |-> 0]

\* fhs_chdir(path): current_dir and the value returned
fhs_chdir(ns, cd, path) ==
  IF path = <<"/">> THEN [current_dir |-> 0, ret |-> 0]
  ELSE LET idx == resolve_path(ns, cd, path) IN
       IF idx < 0 \/ ns[idx].type # NODE_DIR
         THEN [current_dir |-> cd, ret |-> 0 - 1]
         ELSE [current_dir |-> idx, ret |-> 0]

\* fs_write(name, data, len): the table and the value returned
fs_write(ns, cd, name, data, len, now) ==
  LET found == resolve_path(ns, cd, name)
      a == alloc_node(ns, now)
      idx == IF found < 0 THEN a.idx ELSE found
      n1 == IF found < 0
              THEN [a.nodes EXCEPT ![idx].type = NODE_FILE,
                                   ![idx].name = strncpy(name, MAX_NAME - 1),
                                   ![idx].parent = cd]
              ELSE ns
      n == IF len > MAX_DATA THEN MAX_DATA ELSE len
  IN IF idx < 0 THEN [nodes |-> ns, ret |-> 0 - 1]
     ELSE [nodes |-> [n1 EXCEPT ![idx].data = memcpy(@, data, n),
                                ![idx].size = n,
                                ![idx].modified = now],
           ret |-> 0]

\* fs_read(name, buf, max): the value returned and the bytes copied to buf
fs_read(ns, cd, name, max) ==
  LET idx == resolve_path(ns, cd, name) IN
  IF idx < 0 \/ ns[idx].type = NODE_DIR THEN [ret |-> 0 - 1, buf |-> <<>>]
  ELSE LET len == IF ns[idx].size > max THEN max ELSE ns[idx].size IN
       [ret |-> len, buf |-> SubSeq(ns[idx].data, 1, len)]

\* the filesystem and the screen a command works on: f.nodes,
\* f.current_dir and the screen f.v, with the characters f.out it has
\* given to vga_putchar; Shown is f after kprintf put out chars
Shown(f, chars) == [f EXCEPT !.v = vga_puts(@, chars), !.out = @ \o chars]

\* cmd_touch(args)
cmd_touch(f, args, now) ==
  IF args = <<>> THEN Shown(f, kprintf(<<"U", "s", "a", "g", "e", ":", " ",
        "t", "o", "u", "c", "h", " ", "<", "f", "i", "l", "e", "n", "a", "m",
        "e", ">", "\n">>, <<>>))
  ELSE IF find_node_index(f.nodes, f.current_dir, args) >= 0 THEN f
  ELSE LET a == alloc_node(f.nodes, now) IN
       IF a.idx < 0 THEN Shown(f, kprintf(<<"%", "s">>, << <<"F", "i", "l",
             "e", "s", "y", "s", "t", "e", "m", " ", "f", "u", "l", "l",
             "\n">> >>))
       ELSE Shown([f EXCEPT !.nodes =
                     [a.nodes EXCEPT ![a.idx].type = NODE_FILE,
                                     ![a.idx].name = strncpy(args, MAX_NAME - 1),
                                     ![a.idx].parent = f.current_dir,
                                     ![a.idx].size = 0]],
                  kprintf(<<"C", "r", "e", "a", "t", "e", "d", ":", " ", "%",
                        "s", "\n">>, <<args>>))

RECURSIVE skip_word(_, _)
\* 460-461: while (*target && *target != ' ') target++, from element k
skip_word(args, k) ==
  IF CharAt(args, k) # NUL /\ CharAt(args, k) # " " THEN skip_word(args, k + 1)
  ELSE k

RECURSIVE skip_spaces(_, _)
\* 462-463: while (*target == ' ') target++, from element k
skip_spaces(args, k) ==
  IF CharAt(args, k) = " " THEN skip_spaces(args, k + 1) ELSE k

\* 455-458: recursive in cmd_rm(args)
rm_recursive(args) == CharAt(args, 1) = "-" /\ CharAt(args, 2) = "r"

\* 452, 455-464: target in cmd_rm(args)
rm_target(args) ==
  SubSeq(args,
         IF CharAt(args, 1) = "-" THEN skip_spaces(args, skip_word(args, 1)) ELSE 1,
         Len(args))

\* cmd_rm(args)
cmd_rm(f, args) ==
  LET recursive == rm_recursive(args)
      target == rm_target(args)
      idx == resolve_path(f.nodes, f.current_dir, target)
      ns == f.nodes
  IN IF args = <<>>
       THEN Shown(f, kprintf(<<"U", "s", "a", "g", "e", ":", " ", "r", "m",
             " ", "[", "-", "r", "f", "]", " ", "<", "f", "i", "l", "e", ">",
             "\n">>, <<>>))
     ELSE IF idx < 0
       THEN Shown(f, kprintf(<<"r", "m", ":", " ", "%", "s", ":", " ", "N",
             "o", " ", "s", "u", "c", "h", " ", "f", "i", "l", "e", "\n">>,
             <<target>>))
     ELSE IF idx = 0 THEN Shown(f, kprintf(<<"r", "m", ":", " ", "c", "a", "n",
           "n", "o", "t", " ", "r", "e", "m", "o", "v", "e", " ", "r", "o",
           "o", "t", "\n">>, <<>>))
     ELSE IF ns[idx].type = NODE_DIR /\ ~recursive
       THEN Shown(f, kprintf(<<"r", "m", ":", " ", "%", "s", ":", " ", "I",
             "s", " ", "a", " ", "d", "i", "r", "e", "c", "t", "o", "r", "y",
             " ", "(", "u", "s", "e", " ", "-", "r", "f", ")", "\n">>,
             <<target>>))
     ELSE LET swept == IF ns[idx].type = NODE_DIR
                         THEN [i \in NodeIds |->
                                 IF ns[i].parent = idx
                                   THEN [ns[i] EXCEPT !.type = NODE_FREE]
                                   ELSE ns[i]]
                         ELSE ns
          IN Shown([f EXCEPT !.nodes = [swept EXCEPT ![idx].type = NODE_FREE]],
                   kprintf(<<"R", "e", "m", "o", "v", "e", "d", ":", " ", "%",
                         "s", "\n">>, <<target>>))

\* commands.c: cmd_cd(args)
cmd_cd(f, args) ==
  IF args = <<>> \/ args = <<"~">>
    THEN [f EXCEPT !.current_dir =
            fhs_chdir(f.nodes, f.current_dir, <<"/", "r", "o", "o",
                  "t">>).current_dir]
  ELSE LET c == fhs_chdir(f.nodes, f.current_dir, args) IN
       IF c.ret # 0
         THEN Shown(f, kprintf(<<"c", "d", ":", " ", "%", "s", ":", " ", "N",
               "o", " ", "s", "u", "c", "h", " ", "d", "i", "r", "e", "c", "t",
               "o", "r", "y", "\n">>, <<args>>))
         ELSE [f EXCEPT !.current_dir = c.current_dir]

\* commands.c: cmd_mkdir(args)
cmd_mkdir(f, args, now) ==
  IF args = <<>> THEN Shown(f, kprintf(<<"U", "s", "a", "g", "e", ":", " ",
        "m", "k", "d", "i", "r", " ", "<", "d", "i", "r", "e", "c", "t", "o",
        "r", "y", ">", "\n">>, <<>>))
  ELSE LET m == fs_mkdir(f.nodes, f.current_dir, args, now) IN
       IF m.ret = 0
         THEN Shown([f EXCEPT !.nodes = m.nodes],
                    kprintf(<<"C", "r", "e", "a", "t", "e", "d", ":", " ", "%",
                          "s", "/", "\n">>, <<args>>))
         ELSE Shown(f, kprintf(<<"m", "k", "d", "i", "r", ":", " ", "c", "a",
               "n", "n", "o", "t", " ", "c", "r", "e", "a", "t", "e", " ", "'",
               "%", "s", "'", "\n">>, <<args>>))

(* ------------------------------------------------------------------ *)
(* env.c, shell.c: the command line of a simple command                *)
(* ------------------------------------------------------------------ *)

MAX_VAR_NAME == 32

\* env_vars after env_init()
env_init ==
  <<[name |-> <<"H", "O", "M", "E">>, value |-> <<"/", "r", "o", "o", "t">>],
    [name |-> <<"P", "A", "T", "H">>, value |-> <<"/", "b", "i", "n">>],
    [name |-> <<"S", "H", "E", "L", "L">>, value |-> <<"/", "b", "i", "n", "/",
          "n", "a", "s", "h">>],
    [name |-> <<"U", "S", "E", "R">>, value |-> <<"r", "o", "o", "t">>],
    [name |-> <<"H", "O", "S", "T", "N", "A", "M", "E">>, value |-> <<"n", "a",
          "n", "o", "s", "e", "c">>],
    [name |-> <<"P", "S", "1">>, value |-> <<"n", "a", "n", "o", "s", "e", "c",
          "#", " ">>]>>

\* env_get(name): whether a variable was found, and its value
env_get(name) ==
  LET found == {i \in 1 .. Len(env_init) : env_init[i].name = name} IN
  IF found = {} THEN [set |-> FALSE, value |-> <<>>]
  ELSE [set |-> TRUE,
        value |-> env_init[CHOOSE x \in found : \A y \in found : x <= y].value]

\* the characters of a variable name (176-178)
VarNameChars ==
  {"A", "B", "C", "D", "E", "F", "G", "H", "I", "J", "K", "L", "M", "N",
   "O", "P", "Q", "R", "S", "T", "U", "V", "W", "X", "Y", "Z", "a", "b",
   "c", "d", "e", "f", "g", "h", "i", "j", "k", "l", "m", "n", "o", "p",
   "q", "r", "s", "t", "u", "v", "w", "x", "y", "z", "0", "1", "2", "3",
   "4", "5", "6", "7", "8", "9", "_"}

RECURSIVE varname_len(_, _, _)
\* 176-181: the number of characters copied to varname from element k on
varname_len(src, k, vi) ==
  IF CharAt(src, k) \in VarNameChars /\ vi < MAX_VAR_NAME - 1
    THEN varname_len(src, k + 1, vi + 1) ELSE vi

RECURSIVE env_expand_from(_, _, _, _)
\* the loop of env_expand with p at element k and dst as filled so far
env_expand_from(src, k, dst, max) ==
  IF CharAt(src, k) = NUL \/ Len(dst) >= max - 1 THEN dst
  ELSE IF src[k] = "$"
    THEN LET vi == varname_len(src, k + 1, 0)
             val == env_get(SubSeq(src, k + 1, k + vi))
         IN env_expand_from(src, k + 1 + vi,
                            dst \o strncpy(val.value, max - 1 - Len(dst)), max)
  ELSE env_expand_from(src, k + 1, Append(dst, src[k]), max)

\* env_expand(src, dst, max): the string left in dst
env_expand(src, max) == env_expand_from(src, 1, <<>>, max)

\* shell.c: cmd_echo(a)
cmd_echo(f, a) == Shown(f, kprintf(<<"%", "s", "\n">>, << env_expand(a,
      256) >>))

RECURSIVE word_len(_, _, _)
\* shell.c 121-122: the number of characters copied to cmd from element k on
word_len(in, k, i) ==
  IF CharAt(in, k) # NUL /\ CharAt(in, k) # " " /\ i < 63
    THEN word_len(in, k + 1, i + 1) ELSE i

\* shell.c: parse_cmd(in, cmd, args)
parse_cmd(in) ==
  LET s == skip_spaces(in, 1)
      n == word_len(in, s, 0)
      a == skip_spaces(in, s + n)
  IN [cmd |-> SubSeq(in, s, s + n - 1),
      args |-> strncpy(SubSeq(in, a, Len(in)), 191)]

\* shell.c: shell_execute_simple(input) while no alias is set, for the
\* commands echo, touch, rm, mkdir and cd and for names the command table
\* does not hold
shell_execute_simple(f, input, now) ==
  LET c == parse_cmd(input) IN
  IF c.cmd = <<>> THEN f
  ELSE CASE c.cmd = <<"e", "c", "h", "o">> -> cmd_echo(f, c.args)
         [] c.cmd = <<"t", "o", "u", "c", "h">> -> cmd_touch(f, c.args, now)
         [] c.cmd = <<"r", "m">> -> cmd_rm(f, c.args)
         [] c.cmd = <<"m", "k", "d", "i", "r">> -> cmd_mkdir(f, c.args, now)
         [] c.cmd = <<"c", "d">> -> cmd_cd(f, c.args)
         [] OTHER -> Shown(Shown(f, kprintf(<<"%", "s">>, << <<"U", "n", "k",
               "n", "o", "w", "n", ":", " ">> >>)),
                           kprintf(<<"%", "s", "\n">>, << c.cmd >>))

RECURSIVE trim_leading(_)
\* shell_pipe.c 171-179: str without its leading blanks
trim_leading(str) ==
  IF str # <<>> /\ Head(str) \in {" ", "\t"} THEN trim_leading(Tail(str)) ELSE str

RECURSIVE trim_trailing(_)
\* shell_pipe.c 181-184: str without its trailing blanks
trim_trailing(str) ==
  IF str # <<>> /\ str[Len(str)] \in {" ", "\t"}
    THEN trim_trailing(SubSeq(str, 1, Len(str) - 1)) ELSE str

\* shell_pipe.c: trim(str)
trim(str) == trim_trailing(trim_leading(str))

(* ------------------------------------------------------------------ *)
(* idt.c: the table of interrupt handlers, holding the vectors whose   *)
(* handler is not the null pointer                                     *)
(* ------------------------------------------------------------------ *)

IDT_ENTRIES == 256
IRQ0 == 32

\* idt_init() followed by timer_init(): the handler of the timer is the
\* one registered
idt_init == [v \in {IRQ0} |-> "timer_handler"]

\* isr_handlers[num]
HandlerAt(handlers, num) ==
  IF num \in DOMAIN handlers THEN handlers[num] ELSE "0"

\* the conversion of an integer argument to the uint8_t parameter num
uint8(n) == n % 256

\* isr_register_handler(num, handler), num being the uint8_t parameter
isr_register_handler(handlers, num, handler) ==
  [v \in (DOMAIN handlers \ {num}) \cup (IF handler = "0" THEN {} ELSE {num}) |->
     IF v = num THEN handler ELSE handlers[v]]

(* ------------------------------------------------------------------ *)
(* The scheduler with every operation run to completion                *)
(* ------------------------------------------------------------------ *)

\* a kernel stack: pc is the statement of process.c its task-level code is
\* at ("run": outside schedule; "fresh": the initial frame pushed by
\* proc_create; "sw": inside the switch_context call of line 242), next,
\* old and proc are the locals of schedule and scheduler_add, isr says that
\* an interrupt frame of the timer ISR lies on top
NewStack == [pc |-> "fresh", next |-> NULL, old |-> NULL, proc |-> NULL, isr |-> FALSE]
AtTask == [pc |-> "run", next |-> NULL, old |-> NULL, proc |-> NULL, isr |-> FALSE]
schedVars == <<proc_table, next_pid, current_process, ready_queue_head,
               ready_queue_tail, cpu>>
threadVars == <<proc_stacks, preempted>>
pipeVars == <<pipes, pcall, phist>>
sigVars == <<signal_states, sigcalls>>
heapVars == <<heap, total_allocated, total_free, live>>
\* the state of the memory and network subsystems
pageVars == <<page_bitmap, free_pages, page_directory, ptmem, vmap, mapcalls>>
arpVars == <<arp_cache, timer_ticks>>
tcpVars == <<tcp_sockets, tcp_isn, rx_ring>>
shellVars == <<pipe_buffer, pipe_mode, vga_buffer, cursor_x, cursor_y>>
\* the state of the shell, the filesystem and the interrupt table
fsVars == <<nodes, current_dir>>
idtVars == <<isr_handlers>>
moreVars == <<shellVars, fsVars, idtVars>>
restVars == <<heapVars, pageVars, arpVars, tcpVars, moreVars>>
vars == <<proc_table, next_pid, current_process, ready_queue_head,
          ready_queue_tail, cpu, last, quanta, proc_stacks, preempted,
          pipes, pcall, phist, signal_states, sigcalls,
          heap, total_allocated, total_free, live,
          page_bitmap, free_pages, page_directory, ptmem, vmap, mapcalls,
          arp_cache, timer_ticks, tcp_sockets, tcp_isn, rx_ring,
          pipe_buffer, pipe_mode, vga_buffer, cursor_x, cursor_y,
          nodes, current_dir, isr_handlers>>

\* what the operations of the scheduler, each run to completion, leave alone
outsideSched == <<threadVars, pipeVars, sigVars, restVars>>

SetK(s) ==
  /\ proc_table' = s.proc_table
  /\ next_pid' = s.next_pid
  /\ current_process' = s.current_process
  /\ ready_queue_head' = s.ready_queue_head
  /\ ready_queue_tail' = s.ready_queue_tail
  /\ cpu' = s.cpu

\* the state after proc_init(), pipe_init(), signal_init(), mm_init(),
\* paging_init(), timer_init(), arp_init(), vga_init(), vga_clear(),
\* fs_init() and idt_init()
InitKernel ==
  /\ nodes = fs_init.nodes
  /\ current_dir = fs_init.current_dir
  /\ isr_handlers = idt_init
  /\ pipe_buffer = <<>>
  /\ pipe_mode = 0
  /\ vga_buffer = vga_clear.vga_buffer
  /\ cursor_x = vga_clear.cursor_x
  /\ cursor_y = vga_clear.cursor_y
  /\ arp_cache = arp_init
  /\ timer_ticks = 0
  /\ page_bitmap = paging_init.page_bitmap
  /\ free_pages = paging_init.free_pages
  /\ page_directory = paging_init.page_directory
  /\ ptmem = paging_init.ptmem
  /\ mapcalls = 0
  /\ vmap = [v \in 0 .. (TABLES_PER_DIR * PAGES_PER_TABLE - 1) |-> NoPage]
  /\ heap = mm_init.heap
  /\ total_allocated = mm_init.total_allocated
  /\ total_free = mm_init.total_free
  /\ live = {}
  /\ signal_states = signal_init
  /\ sigcalls = 0
  /\ proc_table = proc_init.proc_table
  /\ next_pid = proc_init.next_pid
  /\ current_process = proc_init.current_process
  /\ ready_queue_head = proc_init.ready_queue_head
  /\ ready_queue_tail = proc_init.ready_queue_tail
  /\ cpu = proc_init.cpu
  /\ last = [op |-> "proc_init", by |-> idle_process]
  /\ quanta = <<idle_process>>
  /\ proc_stacks = [k \in Slots |-> IF k = idle_process THEN AtTask ELSE NewStack]
  /\ preempted = 0
  /\ pipes = pipe_init
  /\ pcall = [c \in Callers |-> NoCall]
  /\ phist = NoHistory

\* the state after boot: InitKernel, no socket taken, tcp_isn as line 65
\* initialises it, and nothing received
Init ==
  /\ InitKernel
  /\ tcp_sockets = tcp_init
  /\ tcp_isn = 305419896
  /\ rx_ring = <<>>

\* the running process calls proc_create
ProcCreate ==
  /\ SetK(proc_create(K))
  /\ last' = [op |-> "proc_create", by |-> current_process]
  /\ UNCHANGED <<quanta, outsideSched>>

\* the running process calls proc_yield
ProcYield ==
  /\ SetK(proc_yield(K))
  /\ last' = [op |-> "proc_yield", by |-> current_process]
  /\ UNCHANGED <<quanta, outsideSched>>

\* the running process calls proc_exit
ProcExit ==
  /\ SetK(proc_exit(K))
  /\ last' = [op |-> "proc_exit", by |-> current_process]
  /\ UNCHANGED <<quanta, outsideSched>>

\* IRQ0 fires and timer_handler runs (interrupts are off inside it)
TimerTick ==
  /\ SetK(timer_handler(K))
  /\ last' = [op |-> "timer_handler", by |-> current_process]
  /\ UNCHANGED <<quanta, outsideSched>>

Next == ProcCreate \/ ProcYield \/ ProcExit \/ TimerTick

Spec == Init /\ [][Next]_vars

\* the ready queue as the sequence of slots met from ready_queue_head along
\* the next pointers (at most fuel of them, should the list be cyclic)
RECURSIVE QueueFrom(_, _)
QueueFrom(p, fuel) ==
  IF p = NULL \/ fuel = 0
    THEN <<>>
    ELSE <<p>> \o QueueFrom(proc_table[p].next, fuel - 1)

ReadyQueue == QueueFrom(ready_queue_head, MAX_PROCESSES + 1)

OnQueue(i) == \E n \in 1 .. Len(ReadyQueue) : ReadyQueue[n] = i

TimesOnQueue(i) == Cardinality({n \in 1 .. Len(ReadyQueue) : ReadyQueue[n] = i})

StateOf(i) == proc_table[i].state

\* C1: at most one process-table entry is RUNNING, and it is current_process
OneRunning ==
  \A i \in Slots : StateOf(i) = PROC_RUNNING => i = current_process

\* C1 witness: a created task runs after a timer preemption while the idle
\* process and another task wait as READY
OneRunningWitness ==
  /\ last.op = "timer_handler"
  /\ current_process # idle_process
  /\ StateOf(current_process) = PROC_RUNNING
  /\ StateOf(idle_process) = PROC_READY
  /\ \E i \in Slots : i # idle_process /\ StateOf(i) = PROC_READY

Tasks == {i \in Slots : i # idle_process /\ StateOf(i) # PROC_UNUSED}

\* the bound on the history of quanta
QuantaWindow == MAX_PROCESSES + 1

Recent(q) ==
  IF Len(q) > QuantaWindow THEN SubSeq(q, Len(q) - QuantaWindow + 1, Len(q)) ELSE q

\* this tick ends the quantum of the running process (process.c:253-262)
QuantumEnds(s) ==
  /\ s.current_process # NULL
  /\ s.proc_table[s.current_process].time_slice <= 1

\* proc_create called by the running process; the history of quanta starts
\* again with the process that holds the CPU
FairCreate ==
  /\ SetK(proc_create(K))
  /\ last' = [op |-> "proc_create", by |-> current_process]
  /\ quanta' = IF proc_alloc(K) # NULL THEN <<current_process>> ELSE quanta
  /\ UNCHANGED outsideSched

\* a timer tick; a tick that ends a quantum records who gets the next one
FairTick ==
  /\ SetK(timer_handler(K))
  /\ last' = [op |-> "timer_handler", by |-> current_process]
  /\ quanta' = IF QuantumEnds(K)
                 THEN Recent(Append(quanta, timer_handler(K).current_process))
                 ELSE quanta
  /\ UNCHANGED outsideSched

NextFair == FairCreate \/ FairTick

\* IRQ0 keeps firing (the PIT runs at 100 Hz)
SpecFair == Init /\ [][NextFair]_vars /\ WF_vars(FairTick)

\* with N tasks, a task runs within N time slices of any other process
\* having been given a quantum
WithinNSlices ==
  LET N == Cardinality(Tasks) IN
  \A p \in 1 .. Len(quanta) : \A i \in Tasks :
    (quanta[p] # i /\ p + N <= Len(quanta)) =>
      \E q \in (p + 1) .. (p + N) : quanta[q] = i

\* C2: with N busy tasks and timer-driven scheduling every task runs again
\* within N time slices of any other process getting a quantum, and no task
\* is starved
SchedulerFair ==
  /\ []WithinNSlices
  /\ \A i \in Slots \ {idle_process} :
       [](StateOf(i) # PROC_UNUSED => <>(current_process = i))

\* C2 witness: two tasks and the idle process have gone round, and the task
\* that ran first has the CPU again
SchedulerFairWitness ==
  /\ Cardinality(Tasks) = 2
  /\ Len(quanta) >= 4
  /\ quanta[Len(quanta)] = quanta[Len(quanta) - 3]
  /\ quanta[Len(quanta)] \in Tasks
  /\ current_process = quanta[Len(quanta)]

(* ------------------------------------------------------------------ *)
(* schedule() statement by statement, with the timer interrupt         *)
(* ------------------------------------------------------------------ *)
\* Task-level code runs with interrupts enabled (tasks start with EFLAGS
\* 0x202, process.c:94, and process.c never disables them), so IRQ0 can be
\* taken between any two statements.  The ISR itself runs behind an
\* interrupt gate (idt.h:46) and is one step.  proc_create is taken as one
\* step here; only schedule() called through proc_yield is split.

\* the bound on the timer interrupts taken inside schedule() in one run
MaxPreempt == 1

Me == proc_stacks[cpu]

\* the code on the running stack is at task level, at statement l
At(l) == cpu # NULL /\ ~Me.isr /\ Me.pc = l

Goto(l) == proc_stacks' = [proc_stacks EXCEPT ![cpu].pc = l]

\* the CPU continues on stack k: an interrupted stack returns from the ISR
\* (iret), a stack inside switch_context returns from schedule, a new stack
\* starts its entry function
Resumed(st, k) ==
  IF k = NULL THEN st
  ELSE IF st[k].isr THEN [st EXCEPT ![k].isr = FALSE]
  ELSE IF st[k].pc \in {"sw", "fresh"} THEN [st EXCEPT ![k].pc = "run"]
  ELSE st

\* process.c:134  proc_yield() calls schedule(); line 206: next = NULL
YieldCall ==
  /\ At("run")
  /\ proc_stacks' = [proc_stacks EXCEPT ![cpu] =
                       [pc |-> "s209", next |-> NULL, old |-> NULL,
                        proc |-> NULL, isr |-> FALSE]]
  /\ UNCHANGED <<schedVars, last, quanta, preempted, pipeVars, sigVars, restVars>>

\* 209-210: if (ready_queue_head) next = ready_queue_head;
S209 ==
  /\ At("s209")
  /\ proc_stacks' = [proc_stacks EXCEPT
                       ![cpu].next = ready_queue_head,
                       ![cpu].pc = IF ready_queue_head # NULL THEN "s211" ELSE "s220"]
  /\ UNCHANGED <<schedVars, last, quanta, preempted, pipeVars, sigVars, restVars>>

\* 211: ready_queue_head = next->next;
S211 ==
  /\ At("s211")
  /\ ready_queue_head' = proc_table[Me.next].next
  /\ Goto("s213")
  /\ UNCHANGED <<proc_table, next_pid, current_process, ready_queue_tail, cpu,
                 last, quanta, preempted, pipeVars, sigVars, restVars>>

\* 213-215: if (!ready_queue_head) ready_queue_tail = NULL;
S213 ==
  /\ At("s213")
  /\ ready_queue_tail' = IF ready_queue_head = NULL THEN NULL ELSE ready_queue_tail
  /\ Goto("s216")
  /\ UNCHANGED <<proc_table, next_pid, current_process, ready_queue_head, cpu,
                 last, quanta, preempted, pipeVars, sigVars, restVars>>

\* 216: next->next = NULL;
S216 ==
  /\ At("s216")
  /\ proc_table' = [proc_table EXCEPT ![Me.next].next = NULL]
  /\ Goto("s220")
  /\ UNCHANGED <<next_pid, current_process, ready_queue_head, ready_queue_tail,
                 cpu, last, quanta, preempted, pipeVars, sigVars, restVars>>

\* 220-227: if (!next) next = idle_process; if (next == current_process) return;
S220 ==
  /\ At("s220")
  /\ LET n == IF Me.next = NULL THEN idle_process ELSE Me.next IN
     proc_stacks' = [proc_stacks EXCEPT
                       ![cpu].next = n,
                       ![cpu].pc = IF n = current_process THEN "run" ELSE "s230"]
  /\ UNCHANGED <<schedVars, last, quanta, preempted, pipeVars, sigVars, restVars>>

\* 230: if (current_process && current_process->state == PROC_RUNNING)
S230 ==
  /\ At("s230")
  /\ Goto(IF current_process # NULL
             /\ proc_table[current_process].state = PROC_RUNNING
            THEN "s231" ELSE "s236")
  /\ UNCHANGED <<schedVars, last, quanta, preempted, pipeVars, sigVars, restVars>>

\* 231: current_process->state = PROC_READY;
S231 ==
  /\ At("s231")
  /\ proc_table' = [proc_table EXCEPT ![current_process].state = PROC_READY]
  /\ Goto("s232")
  /\ UNCHANGED <<next_pid, current_process, ready_queue_head, ready_queue_tail,
                 cpu, last, quanta, preempted, pipeVars, sigVars, restVars>>

\* 232: scheduler_add(current_process): the argument is read
S232 ==
  /\ At("s232")
  /\ proc_stacks' = [proc_stacks EXCEPT ![cpu].proc = current_process,
                                        ![cpu].pc = "a164"]
  /\ UNCHANGED <<schedVars, last, quanta, preempted, pipeVars, sigVars, restVars>>

\* 164: proc->next = NULL;
A164 ==
  /\ At("a164")
  /\ proc_table' = [proc_table EXCEPT ![Me.proc].next = NULL]
  /\ Goto("a166")
  /\ UNCHANGED <<next_pid, current_process, ready_queue_head, ready_queue_tail,
                 cpu, last, quanta, preempted, pipeVars, sigVars, restVars>>

\* 166: if (!ready_queue_head)
A166 ==
  /\ At("a166")
  /\ Goto(IF ready_queue_head = NULL THEN "a167" ELSE "a170")
  /\ UNCHANGED <<schedVars, last, quanta, preempted, pipeVars, sigVars, restVars>>

\* 167: ready_queue_head = proc;
A167 ==
  /\ At("a167")
  /\ ready_queue_head' = Me.proc
  /\ Goto("a168")
  /\ UNCHANGED <<proc_table, next_pid, current_process, ready_queue_tail, cpu,
                 last, quanta, preempted, pipeVars, sigVars, restVars>>

\* 168: ready_queue_tail = proc;
A168 ==
  /\ At("a168")
  /\ ready_queue_tail' = Me.proc
  /\ Goto("s236")
  /\ UNCHANGED <<proc_table, next_pid, current_process, ready_queue_head, cpu,
                 last, quanta, preempted, pipeVars, sigVars, restVars>>

\* 170: ready_queue_tail->next = proc; (a store through a null tail changes
\* no TCB)
A170 ==
  /\ At("a170")
  /\ proc_table' = IF ready_queue_tail = NULL THEN proc_table
                   ELSE [proc_table EXCEPT ![ready_queue_tail].next = Me.proc]
  /\ Goto("a171")
  /\ UNCHANGED <<next_pid, current_process, ready_queue_head, ready_queue_tail,
                 cpu, last, quanta, preempted, pipeVars, sigVars, restVars>>

\* 171: ready_queue_tail = proc;
A171 ==
  /\ At("a171")
  /\ ready_queue_tail' = Me.proc
  /\ Goto("s236")
  /\ UNCHANGED <<proc_table, next_pid, current_process, ready_queue_head, cpu,
                 last, quanta, preempted, pipeVars, sigVars, restVars>>

\* 236: process_t *old = current_process;
S236 ==
  /\ At("s236")
  /\ proc_stacks' = [proc_stacks EXCEPT ![cpu].old = current_process,
                                        ![cpu].pc = "s237"]
  /\ UNCHANGED <<schedVars, last, quanta, preempted, pipeVars, sigVars, restVars>>

\* 237: current_process = next;
S237 ==
  /\ At("s237")
  /\ current_process' = Me.next
  /\ Goto("s238")
  /\ UNCHANGED <<proc_table, next_pid, ready_queue_head, ready_queue_tail, cpu,
                 last, quanta, preempted, pipeVars, sigVars, restVars>>

\* 238: current_process->state = PROC_RUNNING;
S238 ==
  /\ At("s238")
  /\ proc_table' = [proc_table EXCEPT ![current_process].state = PROC_RUNNING]
  /\ Goto("s241")
  /\ UNCHANGED <<next_pid, current_process, ready_queue_head, ready_queue_tail,
                 cpu, last, quanta, preempted, pipeVars, sigVars, restVars>>

\* 241-243: if (old) switch_context(&old->esp, next->esp);
S241 ==
  /\ At("s241")
  /\ IF Me.old = NULL
       THEN /\ Goto("run")
            /\ UNCHANGED schedVars
       ELSE LET r == switch_context(K, Me.old, Me.next) IN
            /\ SetK(r)
            /\ proc_stacks' = Resumed([proc_stacks EXCEPT ![cpu].pc = "sw"], r.cpu)
  /\ UNCHANGED <<last, quanta, preempted, pipeVars, sigVars, restVars>>

\* IRQ0 while task-level code runs: timer_handler runs to its end or to its
\* switch_context, which leaves the interrupt frame on the running stack
Interrupt ==
  /\ cpu # NULL
  /\ ~Me.isr
  /\ Me.pc = "run" \/ preempted < MaxPreempt
  /\ LET r == timer_handler(K) IN
     /\ SetK(r)
     /\ proc_stacks' = IF r.cpu # cpu
                         THEN Resumed([proc_stacks EXCEPT ![cpu].isr = TRUE], r.cpu)
                         ELSE proc_stacks
  /\ preempted' = IF Me.pc = "run" THEN preempted ELSE preempted + 1
  /\ UNCHANGED <<last, quanta, pipeVars, sigVars, restVars>>

\* task-level code outside schedule calls proc_create
TaskCreate ==
  /\ At("run")
  /\ LET proc == proc_alloc(K) IN
     /\ SetK(proc_create(K))
     /\ proc_stacks' = IF proc = NULL THEN proc_stacks
                       ELSE [proc_stacks EXCEPT ![proc] = NewStack]
  /\ UNCHANGED <<last, quanta, preempted, pipeVars, sigVars, restVars>>

NextPreempt ==
  \/ TaskCreate \/ YieldCall \/ Interrupt
  \/ S209 \/ S211 \/ S213 \/ S216 \/ S220 \/ S230 \/ S231 \/ S232
  \/ A164 \/ A166 \/ A167 \/ A168 \/ A170 \/ A171
  \/ S236 \/ S237 \/ S238 \/ S241

SpecPreempt == Init /\ [][NextPreempt]_vars

\* no schedule() call is under way: every stack is outside schedule, new, or
\* parked in switch_context
Quiescent ==
  \A k \in Slots : proc_stacks[k].pc \in {"run", "fresh", "sw"}

\* exactly the current process is RUNNING, every READY process is on the
\* ready queue, and nothing is on it twice
SchedConsistent ==
  /\ \A i \in Slots : StateOf(i) = PROC_RUNNING <=> i = current_process
  /\ \A i \in Slots : StateOf(i) = PROC_READY => OnQueue(i)
  /\ \A i \in Slots : TimesOnQueue(i) <= 1

\* C3: whenever the schedule() calls of tasks and of the timer ISR have
\* completed, the scheduler is consistent, also when the ISR ran inside a
\* task's schedule()
PreemptSafe == Quiescent => SchedConsistent

(* ------------------------------------------------------------------ *)
(* pipe.c: pipe_write, pipe_read and pipe_close statement by statement  *)
(* ------------------------------------------------------------------ *)
\* Tasks run the pipe functions with interrupts enabled, so the timer ISR
\* (process.c:249-263) can switch tasks between any two statements, and
\* proc_yield switches voluntarily: the steps of different callers
\* interleave freely.  A C statement is one step.  pipe_create is one step.

outsidePipe == <<schedVars, quanta, threadVars, sigVars, restVars>>

Fds == 0 .. (2 * MAX_PIPES - 1)

\* the lengths pipe_read is called with: one byte, or more than the buffer holds
ReadLens == {1, MaxLen}

\* the locals of a call of caller t; n is written or read_count, data the
\* caller's buffer; gen, rclosed, yielded, free0, eof0 are history: the
\* generation of the slot and whether it was free and had reported end of
\* file when the handle was resolved, rclosed0 and wclosed0 whether an end
\* of the pipe was closed then, whether the call went through proc_yield,
\* whether the read end was closed while it ran
\* the value of last after a step in which no call returned
NoReturn == [op |-> "none", by |-> NULL]

NewCall(o, l, fd, len, data) ==
  [op |-> o, pc |-> l, fd |-> fd, len |-> len, n |-> 0, data |-> data,
   pipe |-> pipe_from_fd(pipes, fd),
   gen |-> IF fd \div 2 \in PipeIds THEN phist.gen[fd \div 2] ELSE 0,
   free0 |-> fd \div 2 \in PipeIds /\ pipes[fd \div 2].in_use = 0,
   eof0 |-> fd \div 2 \in PipeIds /\ phist.eof[fd \div 2],
   rclosed0 |-> /\ pipe_from_fd(pipes, fd) # NULL
                /\ pipes[fd \div 2].read_end_open = 0,
   wclosed0 |-> /\ pipe_from_fd(pipes, fd) # NULL
                /\ pipes[fd \div 2].write_end_open = 0,
   rclosed |-> FALSE, yielded |-> FALSE]

In(t, o, l) == pcall[t].op = o /\ pcall[t].pc = l

Jump(t, l) == pcall' = [pcall EXCEPT ![t].pc = l]

\* the call of t returns v
Ret(t, c, v) ==
  /\ pcall' = [pcall EXCEPT ![t] = NoCall]
  /\ last' = [op |-> c.op, by |-> t, ret |-> v, call |-> c]

CanCall(t) == pcall[t].op = "none" /\ phist.calls < MaxCalls

\* the slot of t's call is changed by it: a call from before the slot's
\* latest pipe_create marks the history
Touch(h, t) ==
  IF pcall[t].gen # h.gen[pcall[t].pipe] THEN [h EXCEPT !.stale = TRUE] ELSE h

\* pipe_create (pipe.c:41-59)
PipeCreate ==
  \E t \in Callers :
    /\ CanCall(t)
    /\ LET i == pipe_free_slot(pipes) IN
       /\ pipes' = pipe_create(pipes)
       /\ phist' = IF i = NULL
                     THEN [phist EXCEPT !.calls = @ + 1]
                     ELSE [phist EXCEPT !.calls = @ + 1, !.gen[i] = @ + 1,
                                        !.accepted[i] = <<>>,
                                        !.delivered[i] = <<>>,
                                        !.eof[i] = FALSE]
       /\ last' = [op |-> "pipe_create", by |-> t,
                   ret |-> IF i = NULL THEN -1 ELSE i, call |-> NoCall]
    /\ UNCHANGED <<pcall, outsidePipe>>

\* pipe_write is called; 81-84: pipe_from_fd, if (!pipe || !is_write) return -1
WriteCall ==
  \E t \in Callers : \E fd \in Fds : \E len \in 1 .. MaxLen :
    /\ CanCall(t)
    /\ phist.bytes + len <= MaxBytes
    /\ LET c == NewCall("pipe_write", "w85", fd, len,
                        [k \in 1 .. len |-> phist.bytes + k]) IN
       IF c.pipe = NULL \/ fd % 2 = 0
         THEN /\ Ret(t, c, -1)
              /\ phist' = [phist EXCEPT !.calls = @ + 1]
         ELSE /\ pcall' = [pcall EXCEPT ![t] = c]
              /\ phist' = [phist EXCEPT !.calls = @ + 1, !.bytes = @ + len]
              /\ last' = NoReturn
    /\ UNCHANGED <<pipes, outsidePipe>>

\* 85-86: if (!pipe->read_end_open) return -1;
W85 ==
  \E t \in Callers :
    /\ In(t, "pipe_write", "w85")
    /\ IF pipes[pcall[t].pipe].read_end_open = 0
         THEN Ret(t, pcall[t], -1)
         ELSE Jump(t, "w91") /\ last' = NoReturn
    /\ UNCHANGED <<pipes, phist, outsidePipe>>

\* 91: while (written < len) ... 105: return written;
W91 ==
  \E t \in Callers :
    /\ In(t, "pipe_write", "w91")
    /\ IF pcall[t].n < pcall[t].len
         THEN Jump(t, "w93") /\ last' = NoReturn
         ELSE Ret(t, pcall[t], pcall[t].n)
    /\ UNCHANGED <<pipes, phist, outsidePipe>>

\* 93: while (pipe->count >= PIPE_BUFFER_SIZE)
W93 ==
  \E t \in Callers :
    /\ In(t, "pipe_write", "w93")
    /\ Jump(t, IF pipes[pcall[t].pipe].count >= PIPE_BUFFER_SIZE THEN "w94" ELSE "w100")
    /\ last' = NoReturn /\ UNCHANGED <<pipes, phist, outsidePipe>>

\* 94-95: if (!pipe->read_end_open) return written > 0 ? written : -1;
W94 ==
  \E t \in Callers :
    /\ In(t, "pipe_write", "w94")
    /\ IF pipes[pcall[t].pipe].read_end_open = 0
         THEN Ret(t, pcall[t], IF pcall[t].n > 0 THEN pcall[t].n ELSE -1)
         ELSE Jump(t, "w96") /\ last' = NoReturn
    /\ UNCHANGED <<pipes, phist, outsidePipe>>

\* 96: proc_yield();
W96 ==
  \E t \in Callers :
    /\ In(t, "pipe_write", "w96")
    /\ pcall' = [pcall EXCEPT ![t].pc = "w93", ![t].yielded = TRUE]
    /\ last' = NoReturn /\ UNCHANGED <<pipes, phist, outsidePipe>>

\* 100: pipe->buffer[pipe->write_pos] = buf[written++];
W100 ==
  \E t \in Callers :
    /\ In(t, "pipe_write", "w100")
    /\ LET s == pcall[t].pipe
           b == pcall[t].data[pcall[t].n + 1] IN
       /\ pipes' = [pipes EXCEPT ![s].buffer[pipes[s].write_pos] = b]
       /\ phist' = Touch([phist EXCEPT !.accepted[s] = Append(@, b)], t)
    /\ pcall' = [pcall EXCEPT ![t].n = @ + 1, ![t].pc = "w101"]
    /\ last' = NoReturn /\ UNCHANGED outsidePipe

\* 101: pipe->write_pos = (pipe->write_pos + 1) % PIPE_BUFFER_SIZE;
W101 ==
  \E t \in Callers :
    /\ In(t, "pipe_write", "w101")
    /\ pipes' = [pipes EXCEPT ![pcall[t].pipe].write_pos = (@ + 1) % PIPE_BUFFER_SIZE]
    /\ phist' = Touch(phist, t)
    /\ Jump(t, "w102")
    /\ last' = NoReturn /\ UNCHANGED outsidePipe

\* 102: pipe->count++;
W102 ==
  \E t \in Callers :
    /\ In(t, "pipe_write", "w102")
    /\ pipes' = [pipes EXCEPT ![pcall[t].pipe].count = U16(@ + 1)]
    /\ phist' = Touch(phist, t)
    /\ Jump(t, "w91")
    /\ last' = NoReturn /\ UNCHANGED outsidePipe

\* pipe_read is called; 113-116: pipe_from_fd, if (!pipe || is_write) return -1
ReadCall ==
  \E t \in Callers : \E fd \in Fds : \E len \in ReadLens :
    /\ CanCall(t)
    /\ LET c == NewCall("pipe_read", "r122", fd, len, <<>>) IN
       IF c.pipe = NULL \/ fd % 2 = 1
         THEN Ret(t, c, -1)
         ELSE pcall' = [pcall EXCEPT ![t] = c] /\ last' = NoReturn
    /\ phist' = [phist EXCEPT !.calls = @ + 1]
    /\ UNCHANGED <<pipes, outsidePipe>>

\* 122: while (pipe->count == 0)
R122 ==
  \E t \in Callers :
    /\ In(t, "pipe_read", "r122")
    /\ Jump(t, IF pipes[pcall[t].pipe].count = 0 THEN "r123" ELSE "r129")
    /\ last' = NoReturn /\ UNCHANGED <<pipes, phist, outsidePipe>>

\* 123-124: if (!pipe->write_end_open) return 0;
R123 ==
  \E t \in Callers :
    /\ In(t, "pipe_read", "r123")
    /\ IF pipes[pcall[t].pipe].write_end_open = 0
         THEN /\ Ret(t, pcall[t], 0)
              /\ phist' = IF pcall[t].gen = phist.gen[pcall[t].pipe]
                            THEN [phist EXCEPT !.eof[pcall[t].pipe] = TRUE]
                            ELSE phist
         ELSE /\ Jump(t, "r125")
              /\ last' = NoReturn /\ UNCHANGED phist
    /\ UNCHANGED <<pipes, outsidePipe>>

\* 125: proc_yield();
R125 ==
  \E t \in Callers :
    /\ In(t, "pipe_read", "r125")
    /\ pcall' = [pcall EXCEPT ![t].pc = "r122", ![t].yielded = TRUE]
    /\ last' = NoReturn /\ UNCHANGED <<pipes, phist, outsidePipe>>

\* 129: while (read_count < len && pipe->count > 0) ... 135: return read_count;
R129 ==
  \E t \in Callers :
    /\ In(t, "pipe_read", "r129")
    /\ IF pcall[t].n < pcall[t].len /\ pipes[pcall[t].pipe].count > 0
         THEN Jump(t, "r130") /\ last' = NoReturn
         ELSE Ret(t, pcall[t], pcall[t].n)
    /\ UNCHANGED <<pipes, phist, outsidePipe>>

\* 130: buf[read_count++] = pipe->buffer[pipe->read_pos];
R130 ==
  \E t \in Callers :
    /\ In(t, "pipe_read", "r130")
    /\ LET s == pcall[t].pipe
           b == pipes[s].buffer[pipes[s].read_pos] IN
       /\ pcall' = [pcall EXCEPT ![t].n = @ + 1, ![t].data = Append(@, b),
                                 ![t].pc = "r131"]
       /\ phist' = [phist EXCEPT !.delivered[s] = Append(@, b)]
    /\ last' = NoReturn /\ UNCHANGED <<pipes, outsidePipe>>

\* 131: pipe->read_pos = (pipe->read_pos + 1) % PIPE_BUFFER_SIZE;
R131 ==
  \E t \in Callers :
    /\ In(t, "pipe_read", "r131")
    /\ pipes' = [pipes EXCEPT ![pcall[t].pipe].read_pos = (@ + 1) % PIPE_BUFFER_SIZE]
    /\ phist' = Touch(phist, t)
    /\ Jump(t, "r132")
    /\ last' = NoReturn /\ UNCHANGED outsidePipe

\* 132: pipe->count--;
R132 ==
  \E t \in Callers :
    /\ In(t, "pipe_read", "r132")
    /\ pipes' = [pipes EXCEPT ![pcall[t].pipe].count = U16(@ + 65535)]
    /\ phist' = Touch(phist, t)
    /\ Jump(t, "r129")
    /\ last' = NoReturn /\ UNCHANGED outsidePipe

\* pipe_close is called; 143-146: pipe_from_fd, if (!pipe) return -1
CloseCall ==
  \E t \in Callers : \E fd \in Fds :
    /\ CanCall(t)
    /\ LET c == NewCall("pipe_close", "c148", fd, 0, <<>>) IN
       IF c.pipe = NULL
         THEN Ret(t, c, -1)
         ELSE pcall' = [pcall EXCEPT ![t] = c] /\ last' = NoReturn
    /\ phist' = [phist EXCEPT !.calls = @ + 1]
    /\ UNCHANGED <<pipes, outsidePipe>>

\* 148-152: the end named by the handle is marked closed; a pipe_write that
\* is past line 85 on this pipe is noted as having lost its reader
C148 ==
  \E t \in Callers :
    /\ In(t, "pipe_close", "c148")
    /\ LET s == pcall[t].pipe IN
       /\ pipes' = IF pcall[t].fd % 2 = 1
                     THEN [pipes EXCEPT ![s].write_end_open = 0]
                     ELSE [pipes EXCEPT ![s].read_end_open = 0]
       /\ pcall' = [u \in Callers |->
                      IF u = t THEN [pcall[t] EXCEPT !.pc = "c155"]
                      ELSE IF /\ pcall[t].fd % 2 = 0
                              /\ pcall[u].op = "pipe_write"
                              /\ pcall[u].pipe = s
                              /\ pcall[u].pc # "w85"
                        THEN [pcall[u] EXCEPT !.rclosed = TRUE]
                        ELSE pcall[u]]
       /\ phist' = Touch(IF pcall[t].fd % 2 = 0
                           THEN [phist EXCEPT !.eof[s] = FALSE] ELSE phist, t)
    /\ last' = NoReturn /\ UNCHANGED outsidePipe

\* 155-159: if (!read_end_open && !write_end_open) in_use = 0; return 0;
C155 ==
  \E t \in Callers :
    /\ In(t, "pipe_close", "c155")
    /\ LET s == pcall[t].pipe
           both == pipes[s].read_end_open = 0 /\ pipes[s].write_end_open = 0 IN
       /\ pipes' = IF both THEN [pipes EXCEPT ![s].in_use = 0] ELSE pipes
       /\ phist' = IF both THEN Touch(phist, t) ELSE phist
    /\ Ret(t, pcall[t], 0)
    /\ UNCHANGED outsidePipe

NextPipe ==
  \/ PipeCreate \/ WriteCall \/ ReadCall \/ CloseCall
  \/ W85 \/ W91 \/ W93 \/ W94 \/ W96 \/ W100 \/ W101 \/ W102
  \/ R122 \/ R123 \/ R125 \/ R129 \/ R130 \/ R131 \/ R132
  \/ C148 \/ C155

SpecPipe == Init /\ [][NextPipe]_vars

NoPipeCall == \A t \in Callers : pcall[t].op = "none"

BothOpen(s) ==
  /\ pipes[s].in_use = 1
  /\ pipes[s].read_end_open = 1
  /\ pipes[s].write_end_open = 1

\* c is a call on the read handle of a pipe that is still the pipe the
\* handle named, and the read end is open
SamePipeReadOpen(c) ==
  /\ c.pipe # NULL
  /\ c.fd % 2 = 0
  /\ c.gen = phist.gen[c.pipe]
  /\ pipes[c.pipe].in_use = 1
  /\ pipes[c.pipe].read_end_open = 1

\* C5: for a pipe with both ends open that only calls made on its own
\* handles have changed, with no call under way, the bytes the reads
\* returned are a prefix of the bytes the writes stored, and the rest of them
\* is the buffer contents from read_pos on
PipeFifo ==
  \A s \in PipeIds :
    (NoPipeCall /\ BothOpen(s) /\ ~phist.stale) =>
      /\ Len(phist.delivered[s]) + pipes[s].count = Len(phist.accepted[s])
      /\ \A k \in 1 .. Len(phist.delivered[s]) :
           phist.delivered[s][k] = phist.accepted[s][k]
      /\ \A k \in 1 .. pipes[s].count :
           pipes[s].buffer[(pipes[s].read_pos + k - 1) % PIPE_BUFFER_SIZE]
             = phist.accepted[s][Len(phist.delivered[s]) + k]

\* C6: with the write end closed and the read end open a pipe_read never
\* goes through proc_yield, and once a pipe_read has returned 0 at end of
\* file every later pipe_read on the pipe returns 0
PipeEof ==
  /\ \A t \in Callers :
       (pcall[t].op = "pipe_read" /\ pcall[t].wclosed0 /\ SamePipeReadOpen(pcall[t]))
         => ~pcall[t].yielded /\ pcall[t].pc # "r125"
  /\ (last.op = "pipe_read" /\ last.call.eof0 /\ SamePipeReadOpen(last.call))
       => last.ret = 0 /\ ~last.call.yielded

\* C7: a pipe_write started with the read end closed returns -1 and stores
\* nothing, and a pipe_write under way when the read end is closed returns a
\* short count or -1
PipeWriterFails ==
  /\ (last.op = "pipe_write" /\ last.call.fd % 2 = 1 /\ last.call.rclosed0)
       => last.ret = -1 /\ last.call.n = 0
  /\ (last.op = "pipe_write" /\ last.call.rclosed)
       => last.ret < last.call.len

\* C8: with both ends closed the slot is free; calls on the handles of a
\* free slot return -1; pipe_create hands out the slot empty with both ends
\* open; no call that resolved its handle before that pipe_create changes
\* the new pipe
PipeSlotReclaimed ==
  /\ NoPipeCall =>
       \A s \in PipeIds :
         (pipes[s].read_end_open = 0 /\ pipes[s].write_end_open = 0)
           => pipes[s].in_use = 0
  /\ (last.op \in {"pipe_read", "pipe_write", "pipe_close"} /\ last.call.free0)
       => last.ret = -1
  /\ (last.op = "pipe_create" /\ last.ret # -1)
       => pipes[last.ret].count = 0 /\ BothOpen(last.ret)
  /\ ~phist.stale

(* ------------------------------------------------------------------ *)
(* Signals: the running process calls the functions of signal.c, and   *)
(* processes are created and yield, so that the caller changes         *)
(* ------------------------------------------------------------------ *)

\* the number of calls of signal_set, signal_send, signal_raise,
\* signal_block and signal_unblock explored
MaxSigCalls == 3

\* the signal numbers passed: out of range on both sides, a signal that
\* terminates by default, KILL, and CHLD and STOP, which do nothing by default
SigArgs == {0, SIGINT, SIGKILL, SIGCHLD, SIGSTOP, MAX_SIGNALS}
Masks == {{SIGINT}, {SIGINT, SIGKILL, SIGSTOP}}
\* the pids signals are sent to other than the sender: the first process
\* created, and one out of range
SendPids == {1, MAX_PROCESSES}
HandlerArgs == {SIG_DFL, SIG_IGN, UserHandler}
outsideSignal == <<quanta, threadVars, pipeVars, restVars>>

SigCall == sigcalls < MaxSigCalls /\ sigcalls' = sigcalls + 1

SignalSet ==
  \E sig \in SigArgs : \E handler \in HandlerArgs :
    /\ SigCall
    /\ signal_states' = signal_set(signal_states, proc_get_pid(K), sig, handler)
    /\ last' = [op |-> "signal_set", by |-> proc_get_pid(K),
                ret |-> signal_set_ret(signal_states, proc_get_pid(K), sig)]
    /\ UNCHANGED <<schedVars, outsideSignal>>

\* signal_raise(sig) == signal_send(proc_get_pid(), sig)
SignalRaise ==
  \E sig \in SigArgs :
    /\ SigCall
    /\ signal_states' = signal_send(signal_states, proc_get_pid(K), sig)
    /\ last' = [op |-> "signal_raise", by |-> proc_get_pid(K),
                ret |-> signal_send_ret(proc_get_pid(K), sig)]
    /\ UNCHANGED <<schedVars, outsideSignal>>

SignalSend ==
  \E pid \in SendPids : \E sig \in SigArgs :
    /\ SigCall
    /\ signal_states' = signal_send(signal_states, pid, sig)
    /\ last' = [op |-> "signal_send", by |-> proc_get_pid(K),
                ret |-> signal_send_ret(pid, sig)]
    /\ UNCHANGED <<schedVars, outsideSignal>>

SignalBlock ==
  \E mask \in Masks :
    /\ SigCall
    /\ signal_states' = signal_block(signal_states, proc_get_pid(K), mask)
    /\ last' = [op |-> "signal_block", by |-> proc_get_pid(K), mask |-> mask]
    /\ UNCHANGED <<schedVars, outsideSignal>>

SignalUnblock ==
  \E mask \in Masks :
    /\ SigCall
    /\ signal_states' = signal_unblock(signal_states, proc_get_pid(K), mask)
    /\ last' = [op |-> "signal_unblock", by |-> proc_get_pid(K), mask |-> mask]
    /\ UNCHANGED <<schedVars, outsideSignal>>

\* signal_check by the running process; the default action of a signal that
\* terminates is proc_exit(128 + sig)
SignalCheck ==
  LET pid == proc_get_pid(K) IN
  /\ pid < MAX_PROCESSES
  /\ LET r == signal_check(signal_states[pid]) IN
     /\ signal_states' = [signal_states EXCEPT ![pid] = r.state]
     /\ last' = [op |-> "signal_check", by |-> pid, proc |-> current_process,
                 before |-> signal_states[pid], ran |-> r.ran]
     /\ IF \E k \in 1 .. Len(r.ran) : r.ran[k].act = "proc_exit"
          THEN SetK(proc_exit(K))
          ELSE UNCHANGED schedVars
  /\ UNCHANGED <<sigcalls, outsideSignal>>

\* the number of processes created while signals are explored
MaxSigProcs == 1

SigProcCreate == next_pid <= MaxSigProcs /\ ProcCreate

NextSignal ==
  \/ SigProcCreate \/ ProcYield
  \/ SignalSet \/ SignalRaise \/ SignalSend \/ SignalBlock \/ SignalUnblock \/ SignalCheck

SpecSignal == Init /\ [][NextSignal]_vars

\* C9: bits 9 and 19 of the blocked bitmap of every process are clear and
\* its handlers of signals 9 and 19 are SIG_DFL
SignalsUnmaskable ==
  \A pid \in Pids :
    /\ signal_states[pid].blocked \cap {SIGKILL, SIGSTOP} = {}
    /\ signal_states[pid].handlers[SIGKILL] = SIG_DFL
    /\ signal_states[pid].handlers[SIGSTOP] = SIG_DFL

\* a process other than idle has just blocked a mask holding KILL, STOP and
\* another signal, and the other signal is blocked now
SignalsUnmaskableWitness ==
  /\ last.op = "signal_block"
  /\ last.by # 0
  /\ {SIGKILL, SIGSTOP} \subseteq last.mask
  /\ SIGINT \in signal_states[last.by].blocked

MinSig(S) == CHOOSE x \in S : \A y \in S : x <= y
Deliverable(st) == st.pending \ st.blocked
\* the pending bits the signal_check that has just returned has cleared
Cleared == last.before.pending \ signal_states[last.by].pending
\* the deliverable signals of that call whose handler is not SIG_IGN
NotIgnored ==
  {s \in Deliverable(last.before) : last.before.handlers[s] # SIG_IGN}
\* what signal_check runs for the signal sig of the state st
ActionOf(st, sig) ==
  IF st.handlers[sig] = SIG_DFL
    THEN IF sig \in {SIGCHLD, SIGCONT, SIGSTOP} THEN "none" ELSE "proc_exit"
    ELSE "handler"

\* C10: a call of signal_check clears at most one pending bit, the one of
\* the lowest deliverable signal, runs the action of that signal only and
\* leaves the rest of the signal state as it was
SignalCheckOne ==
  last.op = "signal_check" =>
    /\ Cardinality(Cleared) <= 1
    /\ Cleared = IF Deliverable(last.before) = {} THEN {}
                 ELSE {MinSig(Deliverable(last.before))}
    /\ \A k \in 1 .. Len(last.ran) :
         last.ran[k].sig = MinSig(Deliverable(last.before))
    /\ signal_states[last.by].blocked = last.before.blocked
    /\ signal_states[last.by].handlers = last.before.handlers

\* C10 as the code has it: a call of signal_check clears the pending bits of
\* the deliverable signals up to the lowest one whose handler is not
\* SIG_IGN (of all of them if all are ignored), runs the action of that one
\* signal only, and leaves the rest of the signal state as it was
SignalCheckFirstNotIgnored ==
  last.op = "signal_check" =>
    /\ Cleared = IF NotIgnored = {} THEN Deliverable(last.before)
                 ELSE {s \in Deliverable(last.before) : s <= MinSig(NotIgnored)}
    /\ IF NotIgnored = {} THEN last.ran = <<>>
       ELSE last.ran = <<[sig |-> MinSig(NotIgnored),
                          act |-> ActionOf(last.before, MinSig(NotIgnored))]>>
    /\ signal_states[last.by].blocked = last.before.blocked
    /\ signal_states[last.by].handlers = last.before.handlers

\* a signal_check has cleared an ignored signal and dispatched the next one
\* while a blocked signal stayed pending
SignalCheckFirstNotIgnoredWitness ==
  /\ last.op = "signal_check"
  /\ Cardinality(Cleared) = 2
  /\ Len(last.ran) = 1

\* C11: when signal_check dispatches a signal whose handler is SIG_DFL,
\* nothing is run for CHLD and CONT, and for every other signal proc_exit
\* is called and the calling process is ended: it is ZOMBIE and no longer
\* the current process
SignalDefaultTerminates ==
  (/\ last.op = "signal_check"
   /\ Len(last.ran) = 1
   /\ last.before.handlers[last.ran[1].sig] = SIG_DFL) =>
     IF last.ran[1].sig \in {SIGCHLD, SIGCONT}
       THEN last.ran[1].act = "none"
       ELSE /\ last.ran[1].act = "proc_exit"
            /\ StateOf(last.proc) = PROC_ZOMBIE
            /\ current_process # last.proc

(* ------------------------------------------------------------------ *)
(* Signals sent to processes that yield and take timer interrupts      *)
(* ------------------------------------------------------------------ *)

NextDeliver ==
  \/ SigProcCreate \/ ProcYield \/ TimerTick
  \/ SignalRaise \/ SignalSend \/ SignalBlock

SpecDeliver == Init /\ [][NextDeliver]_vars

\* C12: when a process has gone through proc_yield or has taken a timer
\* interrupt, none of its signals is pending and unblocked: signal_check
\* has delivered them
SignalDeliveredAtYield ==
  last.op \in {"proc_yield", "timer_handler"} =>
    Deliverable(signal_states[proc_table[last.by].pid]) = {}

(* ------------------------------------------------------------------ *)
(* The heap: kmalloc, and kfree of pointers that kmalloc returned and  *)
(* that were not freed since                                           *)
(* ------------------------------------------------------------------ *)

\* the sizes asked for: nothing, small ones, the whole arena less one
\* header, and more than the arena holds
AllocSizes == {0, 4, 8, HEAP_SIZE - HeaderSize, HEAP_SIZE}
outsideHeap == <<schedVars, quanta, threadVars, pipeVars, sigVars, pageVars, arpVars, tcpVars, moreVars>>
M == [heap |-> heap, total_allocated |-> total_allocated, total_free |-> total_free]

SetM(m) ==
  /\ heap' = m.heap
  /\ total_allocated' = m.total_allocated
  /\ total_free' = m.total_free

Kmalloc ==
  \E size \in AllocSizes :
    LET r == kmalloc(M, size) IN
    /\ SetM(r.m)
    /\ live' = IF r.ptr = 0 THEN live ELSE live \cup {[ptr |-> r.ptr, size |-> size]}
    /\ last' = [op |-> "kmalloc", by |-> NULL, size |-> size, ret |-> r.ptr]
    /\ UNCHANGED outsideHeap

Kfree ==
  \E ptr \in {0} \cup {l.ptr : l \in live} :
    /\ SetM(kfree(M, ptr))
    /\ live' = {l \in live : l.ptr # ptr}
    /\ last' = [op |-> "kfree", by |-> NULL, ptr |-> ptr]
    /\ UNCHANGED outsideHeap

NextHeap == Kmalloc \/ Kfree

SpecHeap == Init /\ [][NextHeap]_vars

RECURSIVE SumUsed(_, _)
\* the sum of the sizes of the blocks of h from i on that are not free
SumUsed(h, i) ==
  IF i > Len(h) THEN 0
  ELSE (IF h[i].free = 0 THEN h[i].size ELSE 0) + SumUsed(h, i + 1)

RECURSIVE SumAsked(_)
\* the sum of the sizes asked for of the allocations S
SumAsked(S) ==
  IF S = {} THEN 0
  ELSE LET l == CHOOSE x \in S : TRUE IN l.size + SumAsked(S \ {l})

\* C13 as stated: total_allocated is the sum of the sizes asked for of
\* the live allocations, and zero when every pointer returned was freed
HeapConservationAsked ==
  /\ live = {} => total_allocated = 0
  /\ total_allocated = SumAsked(live)

\* C13 as the code has it: total_allocated is the sum of the sizes of the
\* blocks handed out and not yet freed, the blocks that are not free are
\* those of the live pointers, and total_allocated is zero when every
\* pointer returned was freed
HeapConservation ==
  /\ live = {} => total_allocated = 0
  /\ total_allocated = SumUsed(heap, 1)
  /\ {heap[i].addr + HeaderSize : i \in {j \in 1 .. Len(heap) : heap[j].free = 0}}
       = {l.ptr : l \in live}
  /\ \A l \in live : heap[BlockOf(heap, l.ptr)].size >= l.size

\* the last of several allocations has just been freed
HeapConservationWitness ==
  /\ last.op = "kfree"
  /\ last.ptr # 0
  /\ live = {}
  /\ Len(heap) >= 3
  /\ total_allocated = 0

\* C14: when every pointer returned was freed, every request that
\* succeeds on the heap mm_init leaves succeeds
HeapRoundTrip ==
  live = {} =>
    \A n \in 0 .. (HEAP_SIZE - HeaderSize) : Fits(heap, n) # {}

(* ------------------------------------------------------------------ *)
(* The page allocator on its own, and with the page tables             *)
(* ------------------------------------------------------------------ *)

outsidePaging == <<schedVars, quanta, threadVars, pipeVars, sigVars, heapVars, arpVars, tcpVars, moreVars>>
G == [page_bitmap |-> page_bitmap, free_pages |-> free_pages,
      page_directory |-> page_directory, ptmem |-> ptmem]

SetG(g) ==
  /\ page_bitmap' = g.page_bitmap
  /\ free_pages' = g.free_pages
  /\ page_directory' = g.page_directory
  /\ ptmem' = g.ptmem

\* the addresses passed to page_free: the start of every page, one address
\* inside a page, and the first address outside the physical memory
FreeArgs ==
  {q * PAGE_SIZE : q \in 0 .. TOTAL_PAGES} \cup {ReservedPages * PAGE_SIZE + 1}
\* the page-aligned virtual addresses of the directory
VirtArgs == {v * PAGE_SIZE : v \in 0 .. (TABLES_PER_DIR * PAGES_PER_TABLE - 1)}
\* the page-aligned physical addresses mapped: page 0, a page of the
\* memory, and one outside it
PhysArgs == {0, (TOTAL_PAGES - 1) * PAGE_SIZE, TOTAL_PAGES * PAGE_SIZE}

PageAlloc ==
  /\ SetG(page_alloc(G).g)
  /\ last' = [op |-> "page_alloc", by |-> NULL, ret |-> page_alloc(G).ret,
              before |-> page_bitmap]
  /\ UNCHANGED <<vmap, mapcalls, outsidePaging>>

PageFree ==
  \E phys_addr \in FreeArgs :
    /\ SetG(page_free(G, phys_addr))
    /\ last' = [op |-> "page_free", by |-> NULL, arg |-> phys_addr,
                before |-> page_bitmap]
    /\ UNCHANGED <<vmap, mapcalls, outsidePaging>>

NextPageAlloc == PageAlloc \/ PageFree

SpecPageAlloc == Init /\ [][NextPageAlloc]_vars

\* C15: free_pages is the number of clear bits of the page bitmap, and a
\* page_free of a page whose bit is clear, or of an address outside the
\* physical memory, changes nothing
FreeCountIsZeroBits ==
  /\ free_pages = Cardinality(PageNos \ page_bitmap)
  /\ (/\ last.op = "page_free"
      /\ last.arg \div PAGE_SIZE \notin last.before) =>
       page_bitmap = last.before

\* a page_free has just named a page outside the reserved ones whose bit
\* was clear already, while another page is allocated
FreeCountIsZeroBitsWitness ==
  /\ last.op = "page_free"
  /\ last.arg \div PAGE_SIZE \notin last.before
  /\ last.arg \div PAGE_SIZE >= ReservedPages
  /\ last.arg \div PAGE_SIZE < TOTAL_PAGES
  /\ free_pages < TOTAL_PAGES - ReservedPages

\* the number of page_map and page_unmap calls explored
MaxMapCalls == 2

MapCall == mapcalls < MaxMapCalls /\ mapcalls' = mapcalls + 1

PageMap ==
  \E virt \in VirtArgs : \E phys \in PhysArgs :
    /\ MapCall
    /\ SetG(page_map(G, virt, phys))
    /\ vmap' = [vmap EXCEPT ![virt \div PAGE_SIZE] = phys]
    /\ last' = [op |-> "page_map", by |-> NULL]
    /\ UNCHANGED outsidePaging

PageUnmap ==
  \E virt \in VirtArgs :
    /\ MapCall
    /\ SetG(page_unmap(G, virt))
    /\ vmap' = [vmap EXCEPT ![virt \div PAGE_SIZE] = 0]
    /\ last' = [op |-> "page_unmap", by |-> NULL]
    /\ UNCHANGED outsidePaging

NextPaging == PageAlloc \/ PageFree \/ PageMap \/ PageUnmap

SpecPaging == Init /\ [][NextPaging]_vars

\* the page tables with pages allocated but none freed
NextPageMap == PageAlloc \/ PageMap \/ PageUnmap

SpecPageMap == Init /\ [][NextPageMap]_vars

\* C16: the bits of the pages paging_init reserves are set, and page_alloc
\* returns no address below the end of the reserved pages
ReservedStaySet ==
  /\ (0 .. (ReservedPages - 1)) \subseteq page_bitmap
  /\ last.op = "page_alloc" =>
       last.ret = 0 \/ last.ret >= ReservedPages * PAGE_SIZE

\* C17: page_get_phys of a virtual page gives the physical address of the
\* latest page_map of that page, and 0 if a page_unmap of it came later
PagingBijection ==
  \A v \in DOMAIN vmap :
    vmap[v] # NoPage => page_get_phys(G, v * PAGE_SIZE) = vmap[v]

(* ------------------------------------------------------------------ *)
(* ARP packets arriving while the tick count advances                  *)
(* ------------------------------------------------------------------ *)

\* the tick counts explored
MaxTicks == 1
outsideArp == <<schedVars, quanta, threadVars, pipeVars, sigVars, heapVars, pageVars, moreVars>>

\* the sender addresses: one more than the cache has slots; and two MACs
ArpIps == {our_ip + k : k \in 1 .. (ARP_CACHE_SIZE + 1)}
ArpMacs == {<<2, 0, 0, 0, 0, 1>>, <<2, 0, 0, 0, 171, 205>>}

\* an ARP packet of len bytes as arp_request lays it out (108-127)
ArpPacket(opcode, sender_mac, sender_ip, target_ip, len) ==
  SubSeq(<<0, 1, 8, 0, 6, 4, opcode \div 256, opcode % 256>> \o sender_mac \o
         BytesOf(sender_ip) \o ZeroMac \o BytesOf(target_ip), 1, len)

\* timer.c:26, the timer interrupt
TimerIrq ==
  /\ timer_ticks < MaxTicks
  /\ timer_ticks' = timer_ticks + 1
  /\ last' = [op |-> "timer_irq", by |-> NULL]
  /\ UNCHANGED <<arp_cache, tcpVars, outsideArp>>

\* the packets tried, as <<opcode, target address, length>>: a request for
\* our address, a request for another, a reply, and a packet cut short
ArpKinds ==
  {<<1, our_ip, 28>>, <<1, our_ip + 1, 28>>, <<2, our_ip, 28>>, <<1, our_ip, 27>>}

ArpHandle ==
  \E kind \in ArpKinds : \E mac \in ArpMacs : \E ip \in ArpIps :
    LET len == kind[3]
        r == arp_handle(arp_cache, ArpPacket(kind[1], mac, ip, kind[2], len),
                        len, timer_ticks) IN
    /\ arp_cache' = r.cache
    /\ last' = [op |-> "arp_handle", by |-> NULL, ip |-> ip, mac |-> mac,
                len |-> len, sent |-> r.sent,
                full |-> \A i \in ArpSlots :
                           arp_cache[i].valid = 1 /\ arp_cache[i].ip # ip]
    /\ UNCHANGED <<timer_ticks, tcpVars, outsideArp>>

NextArp == TimerIrq \/ ArpHandle

SpecArp == Init /\ [][NextArp]_vars

\* C18: right after arp_handle has handled a packet of 28 bytes or more
\* with the sender fields (ip, mac), arp_lookup(ip) returns 0 and mac
ArpCacheConsistent ==
  (last.op = "arp_handle" /\ last.len >= 28) =>
    arp_lookup(arp_cache, last.ip) = [ret |-> 0, mac |-> last.mac]

\* the packet came from an address not in the cache while every slot was
\* valid, and an earlier packet had replaced the MAC of an entry
ArpCacheConsistentWitness ==
  /\ last.op = "arp_handle"
  /\ last.len >= 28
  /\ last.full
  /\ \E i \in ArpSlots : arp_cache[i].valid = 1 /\ arp_cache[i].mac # last.mac

(* ------------------------------------------------------------------ *)
(* tcp_handle applied once to a socket table in any of its states      *)
(* ------------------------------------------------------------------ *)

\* the peer: an address of our subnet and its port; and the port bound
PeerIp == our_ip + 1
PeerPort == 40000
ServicePort == 9000
PeerMac == <<2, 0, 0, 0, 0, 1>>
\* the initial sequence number of the peer
PeerIsn == 1000

\* the sockets a table is made of: never taken; closed with the fields of
\* its last connection; in use in each state with the peer recorded; and
\* listening with no peer. No function of tcp.c returns with a socket in
\* SYN_SENT, FIN_WAIT1, FIN_WAIT2, CLOSING, LAST_ACK or TIME_WAIT, so the
\* table is checked from every value the state field can hold.
ConnectedSocket(st) ==
  [in_use |-> 1, state |-> st, local_port |-> ServicePort,
   remote_port |-> PeerPort, remote_ip |-> PeerIp, seq_num |-> 305419896,
   ack_num |-> PeerIsn + 1, recv_window |-> 4096, recv_buf |-> <<>>]
SocketInits ==
  {FreeSocket, [ConnectedSocket(TCP_CLOSED) EXCEPT !.in_use = 0],
   [ConnectedSocket(TCP_LISTEN) EXCEPT !.remote_port = 0, !.remote_ip = 0,
                                      !.ack_num = 0]}
  \cup {ConnectedSocket(st) : st \in TCP_CLOSED .. TCP_TIME_WAIT}

InitTcp ==
  /\ InitKernel
  /\ tcp_sockets \in [TcpSlots -> SocketInits]
  /\ tcp_isn = 305419896
  /\ rx_ring = <<>>

\* a TCP segment of len bytes: the 20-byte header with data offset 5, as
\* tcp_send_segment lays it out (267-288), and the data
TcpSegment(src_port, dst_port, seq, ack, flags, data, len) ==
  SubSeq(Word16(src_port) \o Word16(dst_port) \o BytesOf(seq) \o BytesOf(ack) \o
         <<80, flags>> \o Word16(4096) \o <<0, 0, 0, 0>> \o data, 1, len)

\* the segments tried, as <<source address, source port, destination port,
\* length>>: from the peer with no data, with one byte of data and cut
\* short, from another host, and to another port
TcpShapes ==
  {<<PeerIp, PeerPort, ServicePort, 20>>, <<PeerIp, PeerPort, ServicePort, 21>>,
   <<PeerIp, PeerPort, ServicePort, 19>>, <<PeerIp + 1, PeerPort, ServicePort, 20>>,
   <<PeerIp, PeerPort, ServicePort + 1, 20>>}
\* every combination of FIN, SYN, RST and ACK
TcpFlagSets == {f + s + r + a : f \in {0, TCP_FIN}, s \in {0, TCP_SYN},
                                r \in {0, TCP_RST}, a \in {0, TCP_ACK}}
\* what is heard while arp_resolve waits: nothing, or the peer's ARP reply
ArpAnswers == {<<>>, PeerMac}

outsideTcp == <<schedVars, quanta, threadVars, pipeVars, sigVars, heapVars, pageVars, moreVars>>

TcpHandle ==
  /\ last.op # "tcp_handle"
  /\ \E shape \in TcpShapes : \E flags \in TcpFlagSets : \E answer \in ArpAnswers :
       LET len == shape[4]
           seg == TcpSegment(shape[2], shape[3], PeerIsn, 0, flags, <<7>>, len)
           r == tcp_handle(tcp_sockets, arp_cache, seg, len, shape[1],
                           timer_ticks, answer)
       IN /\ tcp_sockets' = r.socks
          /\ arp_cache' = r.cache
          /\ last' = [op |-> "tcp_handle", by |-> NULL, before |-> tcp_sockets,
                      src_ip |-> shape[1], src_port |-> shape[2],
                      dst_port |-> shape[3], len |-> len, flags |-> flags,
                      sent |-> r.sent]
  /\ UNCHANGED <<timer_ticks, tcp_isn, rx_ring, outsideTcp>>

NextTcp == TcpHandle

SpecTcp == InitTcp /\ [][NextTcp]_vars

\* the transition table of the specification: the state a socket in state
\* st enters on a segment with the flags set
TableNext(st, flags) ==
  CASE st = TCP_LISTEN /\ HasFlag(flags, TCP_SYN) -> TCP_SYN_RCVD
    [] st = TCP_SYN_SENT /\ HasFlag(flags, TCP_SYN) /\ HasFlag(flags, TCP_ACK) ->
         TCP_ESTABLISHED
    [] st = TCP_SYN_RCVD /\ HasFlag(flags, TCP_ACK) -> TCP_ESTABLISHED
    [] st = TCP_ESTABLISHED /\ HasFlag(flags, TCP_FIN) -> TCP_CLOSE_WAIT
    [] st = TCP_FIN_WAIT1 /\ HasFlag(flags, TCP_FIN) -> TCP_TIME_WAIT
    [] st = TCP_FIN_WAIT1 /\ HasFlag(flags, TCP_ACK) -> TCP_FIN_WAIT2
    [] st = TCP_FIN_WAIT2 /\ HasFlag(flags, TCP_FIN) -> TCP_TIME_WAIT
    [] st = TCP_LAST_ACK /\ HasFlag(flags, TCP_ACK) -> TCP_CLOSED
    [] OTHER -> st

\* the sockets in use that the last segment matched: by the local port and
\* the peer, or, listening, by the local port alone
Matched ==
  {i \in TcpSlots :
     /\ last.before[i].in_use = 1
     /\ last.before[i].local_port = last.dst_port
     /\ \/ last.before[i].state = TCP_LISTEN
        \/ /\ last.before[i].remote_ip = last.src_ip
           /\ last.before[i].remote_port = last.src_port}

\* C19: after tcp_handle has handled a segment with a whole header, the
\* first socket the segment matched is in the state the table gives for
\* its state and the flags, released exactly on LAST_ACK with ACK, and
\* every other socket is as it was; a segment that matched no socket has
\* changed no socket
TcpFollowsTable ==
  (last.op = "tcp_handle" /\ last.len >= 20) =>
    /\ Matched = {} => tcp_sockets = last.before
    /\ \A i \in TcpSlots :
         IF i \in Matched /\ \A j \in Matched : i <= j
           THEN /\ tcp_sockets[i].state = TableNext(last.before[i].state, last.flags)
                /\ tcp_sockets[i].in_use =
                     IF last.before[i].state = TCP_LAST_ACK /\ HasFlag(last.flags, TCP_ACK)
                       THEN 0 ELSE 1
           ELSE tcp_sockets[i] = last.before[i]

\* a FIN with ACK reached a socket in FIN_WAIT1 behind a closed socket
\* that had the same ports and peer, and the socket is in TIME_WAIT
TcpFollowsTableWitness ==
  /\ last.op = "tcp_handle"
  /\ last.len >= 20
  /\ HasFlag(last.flags, TCP_FIN) /\ HasFlag(last.flags, TCP_ACK)
  /\ last.before[0].in_use = 0 /\ last.before[0].local_port = last.dst_port
  /\ last.before[1].state = TCP_FIN_WAIT1
  /\ tcp_sockets[1].state = TCP_TIME_WAIT

(* ------------------------------------------------------------------ *)
(* A listening socket, frames arriving on the wire, and net_poll       *)
(* ------------------------------------------------------------------ *)

\* the frames the ring holds and the sockets taken in one behaviour
MaxRing == 2
MaxSocketCalls == 2

\* an IPv4 packet as tcp_send_segment lays its header out (233-265)
IpPacket(src_ip, dst_ip, protocol, payload) ==
  LET ip0 == <<69, 0>> \o Word16(20 + Len(payload)) \o
             <<0, 0, 64, 0, 64, protocol, 0, 0>> \o BytesOf(src_ip) \o BytesOf(dst_ip)
      sum == Fold16(WordSum(ip0, 0))
  IN [ip0 EXCEPT ![11] = ((65535 - sum) \div 256) % 256,
                 ![12] = (65535 - sum) % 256] \o payload

EthFrame(dst_mac, src_mac, ethertype, payload) ==
  dst_mac \o src_mac \o Word16(ethertype) \o payload

\* the peer's SYN to the service port, with the sequence number PeerIsn
SynFrame ==
  EthFrame(our_mac, PeerMac, ETHERTYPE_IP,
           IpPacket(PeerIp, our_ip, 6,
                    TcpSegment(PeerPort, ServicePort, PeerIsn, 0, TCP_SYN, <<>>, 20)))

\* the peer's ACK of our SYN+ACK
AckFrame ==
  EthFrame(our_mac, PeerMac, ETHERTYPE_IP,
           IpPacket(PeerIp, our_ip, 6,
                    TcpSegment(PeerPort, ServicePort, PeerIsn + 1, 305419897,
                               TCP_ACK, <<>>, 20)))

\* the frames that arrive: the SYN, the ACK, the peer's ARP request for our
\* address, and a SYN for another host
WireFrames ==
  {SynFrame, AckFrame,
   EthFrame(<<255, 255, 255, 255, 255, 255>>, PeerMac, ETHERTYPE_ARP,
            ArpPacket(1, PeerMac, PeerIp, our_ip, 28)),
   EthFrame(our_mac, PeerMac, ETHERTYPE_IP,
            IpPacket(PeerIp, our_ip + 5, 6,
                     TcpSegment(PeerPort, ServicePort, PeerIsn, 0, TCP_SYN, <<>>, 20)))}

SockArgs == TcpSlots \cup {MAX_TCP_SOCKETS}

TcpSocket ==
  /\ tcp_isn < 305419896 + MaxSocketCalls
  /\ LET r == tcp_socket(tcp_sockets, tcp_isn) IN
       /\ tcp_sockets' = r.socks
       /\ tcp_isn' = r.isn
       /\ last' = [op |-> "tcp_socket", by |-> NULL, ret |-> r.ret]
  /\ UNCHANGED <<arp_cache, timer_ticks, rx_ring, outsideTcp>>

TcpBind ==
  \E sock \in SockArgs : \E port \in {ServicePort, ServicePort + 1} :
    /\ tcp_sockets' = tcp_bind(tcp_sockets, sock, port)
    /\ last' = [op |-> "tcp_bind", by |-> NULL, sock |-> sock]
    /\ UNCHANGED <<arp_cache, timer_ticks, tcp_isn, rx_ring, outsideTcp>>

TcpListen ==
  \E sock \in SockArgs :
    /\ tcp_sockets' = tcp_listen(tcp_sockets, sock)
    /\ last' = [op |-> "tcp_listen", by |-> NULL, sock |-> sock]
    /\ UNCHANGED <<arp_cache, timer_ticks, tcp_isn, rx_ring, outsideTcp>>

TcpClose ==
  \E sock \in SockArgs : \E answer \in ArpAnswers :
    LET r == tcp_close(tcp_sockets, sock, arp_cache, timer_ticks, answer) IN
      /\ tcp_sockets' = r.socks
      /\ arp_cache' = r.cache
      /\ last' = [op |-> "tcp_close", by |-> NULL, sock |-> sock, sent |-> r.sent,
                  before |-> tcp_sockets]
      /\ UNCHANGED <<timer_ticks, tcp_isn, rx_ring, outsideTcp>>

\* the card stores a frame in its ring
FrameArrives ==
  /\ Len(rx_ring) < MaxRing
  /\ \E frame \in WireFrames : rx_ring' = Append(rx_ring, frame)
  /\ last' = [op |-> "receive", by |-> NULL]
  /\ UNCHANGED <<arp_cache, timer_ticks, tcp_sockets, tcp_isn, outsideTcp>>

NetPoll ==
  LET r == net_poll(arp_cache, rx_ring, timer_ticks) IN
    /\ arp_cache' = r.cache
    /\ rx_ring' = <<>>
    /\ last' = [op |-> "net_poll", by |-> NULL, before |-> tcp_sockets,
                polled |-> rx_ring, sent |-> r.sent, handlers |-> r.handlers]
    /\ UNCHANGED <<timer_ticks, tcp_sockets, tcp_isn, outsideTcp>>

NextHandshake ==
  TcpSocket \/ TcpBind \/ TcpListen \/ TcpClose \/ FrameArrives \/ NetPoll

SpecHandshake == Init /\ [][NextHandshake]_vars

\* the frame f is a TCP segment with the flags, seq and ack
IsSegment(f, flags, seq, ack) ==
  /\ Len(f) >= 54
  /\ f[13] * 256 + f[14] = ETHERTYPE_IP
  /\ f[24] = 6
  /\ f[48] = flags
  /\ WordAt(f, 38) = seq
  /\ WordAt(f, 42) = ack

\* C20: when net_poll has handled the peer's SYN for the port a socket
\* listens on, the socket is in SYN_RCVD and a SYN+ACK with seq one above
\* the socket's initial sequence number and ack one above the peer's has
\* been sent; when it has handled the peer's ACK for a socket in SYN_RCVD,
\* the socket is ESTABLISHED
PassiveHandshake ==
  last.op = "net_poll" =>
    \A i \in TcpSlots :
      LET s == last.before[i] IN
      /\ (/\ last.polled = <<SynFrame>>
          /\ s.in_use = 1 /\ s.state = TCP_LISTEN /\ s.local_port = ServicePort)
         => /\ tcp_sockets[i].state = TCP_SYN_RCVD
            /\ \E k \in 1 .. Len(last.sent) :
                 IsSegment(last.sent[k], TCP_SYN + TCP_ACK, s.seq_num + 1, PeerIsn + 1)
      /\ (/\ last.polled = <<AckFrame>>
          /\ s.in_use = 1 /\ s.state = TCP_SYN_RCVD /\ s.local_port = ServicePort)
         => tcp_sockets[i].state = TCP_ESTABLISHED

(* ------------------------------------------------------------------ *)
(* tcp_close on a socket table in any of its states, and one segment   *)
(* ------------------------------------------------------------------ *)

\* the peer's answer to a close reaches tcp_handle: its ACK, or its FIN
\* with ACK
PeerAnswers ==
  /\ last.op = "tcp_close"
  /\ \E flags \in {TCP_ACK, TCP_FIN + TCP_ACK} :
       LET seg == TcpSegment(PeerPort, ServicePort, PeerIsn + 1, 0, flags, <<>>, 20)
           r == tcp_handle(tcp_sockets, arp_cache, seg, 20, PeerIp, timer_ticks,
                           PeerMac)
       IN /\ tcp_sockets' = r.socks
          /\ arp_cache' = r.cache
          /\ last' = [op |-> "tcp_handle", by |-> NULL, before |-> tcp_sockets,
                      src_ip |-> PeerIp, src_port |-> PeerPort,
                      dst_port |-> ServicePort, len |-> 20, flags |-> flags,
                      sent |-> r.sent]
  /\ UNCHANGED <<timer_ticks, tcp_isn, rx_ring, outsideTcp>>

NextClose == TcpClose \/ PeerAnswers

SpecClose == InitTcp /\ [][NextClose]_vars

\* C21: when tcp_close(sock) has returned for a socket that was
\* ESTABLISHED, a FIN+ACK has been sent, seq_num is one more than before,
\* and the socket is in FIN_WAIT1 and still in use
CloseEntersFinWait ==
  (/\ last.op = "tcp_close"
   /\ last.sock \in TcpSlots
   /\ last.before[last.sock].in_use = 1
   /\ last.before[last.sock].state = TCP_ESTABLISHED)
  => LET s0 == last.before[last.sock]
         s == tcp_sockets[last.sock]
     IN /\ \E k \in 1 .. Len(last.sent) :
             IsSegment(last.sent[k], TCP_FIN + TCP_ACK, s0.seq_num, s0.ack_num)
        /\ s.seq_num = s0.seq_num + 1
        /\ s.state = TCP_FIN_WAIT1
        /\ s.in_use = 1

(* ------------------------------------------------------------------ *)
(* find_operator applied to a line                                     *)
(* ------------------------------------------------------------------ *)

\* the lines tried: every line of at most MaxLine of these characters
MaxLine == 5
LineChars == {"a", "\"", "'", "|", "&", ">", "<", ";"}
Lines == UNION {[1 .. n -> LineChars] : n \in 0 .. MaxLine}

FindOperator ==
  /\ last.op # "find_operator"
  /\ \E cmd \in Lines :
       LET r == find_operator(cmd) IN
       last' = [op |-> "find_operator", by |-> NULL, cmd |-> cmd,
                ret |-> r.ret, pos |-> r.pos]
  /\ UNCHANGED <<schedVars, quanta, outsideSched>>

NextParse == FindOperator

SpecParse == Init /\ [][NextParse]_vars

RECURSIVE QuoteOpen(_, _)
\* the quote character that is open after the first k characters of cmd,
\* NUL when none is: a quote character opens a quoted string unless one is
\* open, and closes the one of its own kind
QuoteOpen(cmd, k) ==
  IF k = 0 THEN NUL
  ELSE LET before == QuoteOpen(cmd, k - 1) IN
       IF before = NUL
         THEN IF cmd[k] \in {"\"", "'"} THEN cmd[k] ELSE NUL
         ELSE IF cmd[k] = before THEN NUL ELSE before

\* the operator that starts at element k of cmd, 0 when none does
OperatorAt(cmd, k) ==
  LET two == <<CharAt(cmd, k), CharAt(cmd, k + 1)>> IN
  CASE two = <<"|", "|">> -> 6
    [] two = <<"&", "&">> -> 5
    [] two = <<">", ">">> -> 3
    [] two[1] = "|" -> 1
    [] two[1] = ">" -> 2
    [] two[1] = "<" -> 4
    [] two[1] = ";" -> 7
    [] OTHER -> 0

\* the elements of cmd outside quoted strings where an operator starts
OperatorsOutside(cmd) ==
  {k \in 1 .. Len(cmd) :
     QuoteOpen(cmd, k - 1) = NUL /\ QuoteOpen(cmd, k) = NUL /\ OperatorAt(cmd, k) # 0}

\* C22: find_operator returns the type and the offset of the leftmost
\* operator outside quoted strings, the two-character operators before
\* their first characters, and 0 when there is none
FindsLeftmostOperator ==
  last.op = "find_operator" =>
    LET ops == OperatorsOutside(last.cmd) IN
    IF ops = {} THEN last.ret = 0
    ELSE LET k == CHOOSE j \in ops : \A l \in ops : j <= l IN
         last.ret = OperatorAt(last.cmd, k) /\ last.pos = k - 1

\* a line with an operator character inside a quoted string and a
\* two-character operator after it
FindsLeftmostOperatorWitness ==
  /\ last.op = "find_operator"
  /\ last.ret \in {3, 5, 6}
  /\ \E k \in 1 .. Len(last.cmd) :
       /\ QuoteOpen(last.cmd, k) # NUL
       /\ last.cmd[k] \in {"|", "&", ">", "<", ";"}
       /\ k - 1 < last.pos

(* ------------------------------------------------------------------ *)
(* Output while the shell captures and while it does not               *)
(* ------------------------------------------------------------------ *)

outsideShell == <<schedVars, quanta, threadVars, pipeVars, sigVars, heapVars,
                  pageVars, arpVars, tcpVars, fsVars, idtVars>>

V == [vga_buffer |-> vga_buffer, cursor_x |-> cursor_x, cursor_y |-> cursor_y]
SetV(v) ==
  /\ vga_buffer' = v.vga_buffer
  /\ cursor_x' = v.cursor_x
  /\ cursor_y' = v.cursor_y

\* the characters and the kprintf calls tried
PutChars == {"a", "b", "\n", BS}
KprintfCalls ==
  {<< <<"%", "s", "\n">>, << <<"a", "b">> >> >>,
   << <<"%", "d">>, <<0 - 7>> >>,
   << <<"%", "c", "%", "%">>, <<"b">> >>}

PipeCaptureStart ==
  /\ pipe_mode' = 1
  /\ pipe_buffer' = <<>>
  /\ last' = [op |-> "pipe_capture_start", by |-> NULL]
  /\ UNCHANGED <<vga_buffer, cursor_x, cursor_y, outsideShell>>

PipeCaptureEnd ==
  /\ pipe_mode' = 0
  /\ last' = [op |-> "pipe_capture_end", by |-> NULL]
  /\ UNCHANGED <<pipe_buffer, vga_buffer, cursor_x, cursor_y, outsideShell>>

VgaPutchar ==
  \E c \in PutChars :
    /\ SetV(vga_putchar(V, c))
    /\ last' = [op |-> "vga_putchar", by |-> NULL, chars |-> <<c>>,
                mode |-> pipe_mode, buf |-> pipe_buffer, screen |-> V]
    /\ UNCHANGED <<pipe_buffer, pipe_mode, outsideShell>>

Kprintf ==
  \E call \in KprintfCalls :
    LET chars == kprintf(call[1], call[2]) IN
    /\ SetV(vga_puts(V, chars))
    /\ last' = [op |-> "kprintf", by |-> NULL, chars |-> chars,
                mode |-> pipe_mode, buf |-> pipe_buffer, screen |-> V]
    /\ UNCHANGED <<pipe_buffer, pipe_mode, outsideShell>>

NextCapture == PipeCaptureStart \/ PipeCaptureEnd \/ VgaPutchar \/ Kprintf

SpecCapture == Init /\ [][NextCapture]_vars

RECURSIVE Captured(_, _)
\* the capture buffer buf after the characters chars have been appended
\* up to its capacity
Captured(buf, chars) ==
  IF chars = <<>> THEN buf
  ELSE Captured(IF Len(buf) < PIPE_BUF_SIZE - 1 THEN Append(buf, Head(chars)) ELSE buf,
                Tail(chars))

\* C23: characters put out through vga_putchar or kprintf in capture mode
\* are appended to the capture buffer and leave the screen as it was;
\* outside capture mode they leave the capture buffer as it was
OutputCaptured ==
  last.op \in {"vga_putchar", "kprintf"} =>
    IF last.mode = 1
      THEN pipe_buffer = Captured(last.buf, last.chars) /\ V = last.screen
      ELSE pipe_buffer = last.buf

(* ------------------------------------------------------------------ *)
(* Command lines given to shell_execute_advanced                       *)
(* ------------------------------------------------------------------ *)

outsideFs == <<schedVars, quanta, threadVars, pipeVars, sigVars, heapVars,
               pageVars, arpVars, tcpVars, idtVars>>

F == [nodes |-> nodes, current_dir |-> current_dir, v |-> V, out |-> <<>>]
SetF(f) ==
  /\ nodes' = f.nodes
  /\ current_dir' = f.current_dir
  /\ SetV(f.v)

\* the lines typed
ShellLines ==
  {<<"e", "c", "h", "o", " ", "t", "e", "s", "t", "d", "a", "t", "a", " ", ">",
        " ", "f", "i", "l", "e", ".", "t", "x", "t">>,
   <<"e", "c", "h", "o", " ", "$", "U", "S", "E", "R", " ", ">", "o", "u",
         "t">>,
   <<"e", "c", "h", "o", " ", "h", "i">>,
   <<"r", "m", " ", "-", "r", " ", "t", "m", "p">>,
   <<"r", "m", " ", "f", "i", "l", "e", ".", "t", "x", "t">>,
   <<"t", "o", "u", "c", "h", " ", "a">>,
   <<"m", "k", "d", "i", "r", " ", "d">>,
   <<"c", "d", " ", "d">>,
   <<"c", "d", " ", "/">>,
   <<"r", "m", " ", "-", "r", " ", "o", "p", "t">>,
   <<"f", "r", "o", "b">>}

\* shell_execute_advanced(input) for a line without operator (398-403)
\* and for a redirection (405-415, 424-429). The command on the left
\* puts its characters out through kprintf, hence vga_putchar, which
\* writes none of them to the capture buffer.
ShellExecuteAdvanced ==
  \E input \in ShellLines :
    LET cmdline == strncpy(input, 511)
        found == find_operator(cmdline)
        op == found.ret
        pos == found.pos
        left == trim(SubSeq(cmdline, 1, pos))
        right == trim(SubSeq(cmdline, pos + 2, Len(cmdline)))
        simple == shell_execute_simple(F, cmdline, timer_ticks)
        f1 == shell_execute_simple(F, left, timer_ticks)
        captured == <<>>
        w == fs_write(f1.nodes, f1.current_dir, right, captured, Len(captured),
                      timer_ticks)
    IN /\ op \in {0, 2}
       /\ IF op = 0
            THEN /\ SetF(simple)
                 /\ UNCHANGED <<pipe_buffer, pipe_mode>>
                 /\ last' = [op |-> "shell_execute_advanced", by |-> NULL,
                             type |-> op, right |-> <<>>, out |-> simple.out,
                             wrote |-> 0 - 1]
            ELSE /\ SetF([f1 EXCEPT !.nodes = w.nodes])
                 /\ pipe_buffer' = captured
                 /\ pipe_mode' = 0
                 /\ last' = [op |-> "shell_execute_advanced", by |-> NULL,
                             type |-> op, right |-> right, out |-> f1.out,
                             wrote |-> w.ret]
       /\ UNCHANGED outsideFs

NextRedirect == ShellExecuteAdvanced

SpecRedirect == Init /\ [][NextRedirect]_vars

\* C24: after a redirection that wrote its file, fs_read of the file
\* gives exactly the characters the command put out
RedirectRoundTrip ==
  (/\ last.op = "shell_execute_advanced"
   /\ last.type = 2
   /\ last.wrote = 0) =>
    LET r == fs_read(nodes, current_dir, last.right, MAX_DATA) IN
    /\ r.ret = Len(last.out)
    /\ r.buf = last.out

(* ------------------------------------------------------------------ *)
(* The operations of the filesystem                                    *)
(* ------------------------------------------------------------------ *)

\* the names, arguments and paths tried
MkdirNames == {<<"x">>}
TouchArgs == {<<"c">>}
WriteArgs == {<<<<"c">>, <<"d">>>>}
RmArgs == {<<"-", "r", " ", "t", "m", "p">>, <<"-", "r", "f", " ", "v", "a",
      "r">>, <<"c">>, <<"v", "a", "r">>}
ChdirPaths == {<<"/">>, <<"v", "a", "r", "/", "l", "o", "g">>, <<"x">>, <<".",
      ".", "/", ".", ".">>}

FsMkdir ==
  \E name \in MkdirNames :
    LET r == fs_mkdir(nodes, current_dir, name, timer_ticks) IN
    /\ nodes' = r.nodes
    /\ last' = [op |-> "fs_mkdir", by |-> NULL, ret |-> r.ret]
    /\ UNCHANGED <<current_dir, shellVars, outsideFs>>

CmdTouch ==
  \E args \in TouchArgs :
    /\ SetF(cmd_touch(F, args, timer_ticks))
    /\ last' = [op |-> "cmd_touch", by |-> NULL]
    /\ UNCHANGED <<pipe_buffer, pipe_mode, outsideFs>>

FsWrite ==
  \E a \in WriteArgs :
    LET r == fs_write(nodes, current_dir, a[1], a[2], Len(a[2]), timer_ticks) IN
    /\ nodes' = r.nodes
    /\ last' = [op |-> "fs_write", by |-> NULL, ret |-> r.ret]
    /\ UNCHANGED <<current_dir, shellVars, outsideFs>>

\* cmd_rm(args); the history keeps the table it was called on, the node
\* the target resolved to and whether that node was removed as a directory
CmdRm ==
  \E args \in RmArgs :
    LET idx == resolve_path(nodes, current_dir, rm_target(args)) IN
    /\ SetF(cmd_rm(F, args))
    /\ last' = [op |-> "cmd_rm", by |-> NULL, before |-> nodes, idx |-> idx,
                dir |-> idx > 0 /\ nodes[idx].type = NODE_DIR /\ rm_recursive(args)]
    /\ UNCHANGED <<pipe_buffer, pipe_mode, outsideFs>>

FhsChdir ==
  \E path \in ChdirPaths :
    LET r == fhs_chdir(nodes, current_dir, path) IN
    /\ current_dir' = r.current_dir
    /\ last' = [op |-> "fhs_chdir", by |-> NULL, path |-> path, ret |-> r.ret,
                from |-> current_dir]
    /\ UNCHANGED <<nodes, shellVars, outsideFs>>

NextFs == FsMkdir \/ CmdTouch \/ FsWrite \/ CmdRm \/ FhsChdir

SpecFs == Init /\ [][NextFs]_vars

\* C25: every node in use other than the root has a parent in the table
\* that is a directory in use, and the root alone has parent -1
FsTreeInvariant ==
  \A i \in NodeIds :
    nodes[i].type # NODE_FREE =>
      IF i = 0 THEN nodes[i].parent = 0 - 1
      ELSE /\ nodes[i].parent \in NodeIds
           /\ nodes[nodes[i].parent].type = NODE_DIR

RECURSIVE IsUnder(_, _, _, _)
\* node i of the table ns is in use and lies below node d, at most n
\* parent links away
IsUnder(ns, i, d, n) ==
  /\ n > 0
  /\ ns[i].type # NODE_FREE
  /\ ns[i].parent \in NodeIds
  /\ \/ ns[i].parent = d
     \/ IsUnder(ns, ns[i].parent, d, n - 1)

\* the descendants of node d in the table ns
Descendants(ns, d) == {i \in NodeIds : IsUnder(ns, i, d, MAX_NODES)}

\* C26: after cmd_rm has removed a directory with -r or -rf, every node
\* that was a descendant of it, at any depth, is free
RmFreesDescendants ==
  (last.op = "cmd_rm" /\ last.dir) =>
    \A i \in Descendants(last.before, last.idx) : nodes[i].type = NODE_FREE

(* ------------------------------------------------------------------ *)
(* resolve_path on the tables the operations of the filesystem leave   *)
(* ------------------------------------------------------------------ *)

ResolvePaths ==
  {<<>>, <<"/">>, <<".">>, <<".", ".">>, <<"v", "a", "r", "/", "l", "o", "g">>,
        <<"/", "v", "a", "r", "/">>, <<"x">>}

\* resolve_path(path), and resolve_path of path with "/." and with "/.."
\* appended
ResolvePath ==
  \E path \in ResolvePaths :
    /\ last' = [op |-> "resolve_path", by |-> NULL, path |-> path,
                ret |-> resolve_path(nodes, current_dir, path),
                dot |-> resolve_path(nodes, current_dir, path \o <<"/",
                      ".">>),
                dotdot |-> resolve_path(nodes, current_dir, path \o <<"/", ".",
                      ".">>)]
    /\ UNCHANGED <<nodes, current_dir, shellVars, outsideFs>>

NextPath == FsMkdir \/ CmdTouch \/ CmdRm \/ FhsChdir \/ ResolvePath

SpecPath == Init /\ [][NextPath]_vars

\* the directory c is /a/b/c for two directories a and b, a in the root
ThreeDeep(c) ==
  LET b == nodes[c].parent
      a == nodes[b].parent
  IN /\ nodes[c].type = NODE_DIR
     /\ b > 0 /\ nodes[b].type = NODE_DIR
     /\ a > 0 /\ nodes[a].type = NODE_DIR
     /\ nodes[a].parent = 0

\* C27: when path resolves to a directory, path with "/." appended
\* resolves to the same node and path with "/.." appended to its parent,
\* to the root for the root; fhs_chdir("../..") from /a/b/c ends in /a
PathResolverIdempotent ==
  /\ (/\ last.op = "resolve_path"
      /\ last.ret >= 0
      /\ nodes[last.ret].type = NODE_DIR) =>
       /\ last.dot = last.ret
       /\ last.dotdot = IF last.ret = 0 THEN 0 ELSE nodes[last.ret].parent
  /\ (/\ last.op = "fhs_chdir"
      /\ last.path = <<".", ".", "/", ".", ".">>
      /\ ThreeDeep(last.from)) =>
       current_dir = nodes[nodes[last.from].parent].parent

PathResolverIdempotentWitness ==
  /\ last.op = "resolve_path"
  /\ last.path # <<>>
  /\ last.ret > 0
  /\ nodes[last.ret].type = NODE_DIR
  /\ nodes[last.ret].parent > 0
  /\ last.dotdot = nodes[last.ret].parent

(* ------------------------------------------------------------------ *)
(* Registering interrupt handlers                                      *)
(* ------------------------------------------------------------------ *)

outsideIdt == <<schedVars, quanta, threadVars, pipeVars, sigVars, heapVars,
                pageVars, arpVars, tcpVars, shellVars, fsVars>>

\* the vector numbers and the handlers a caller passes
VectorArgs == {0, 32, 33, 128, 255, 256, 288, 289, 511}
IsrHandlers == {"keyboard_handler", "syscall_handler", "0"}

\* a call isr_register_handler(vector, handler): the argument is
\* converted to the uint8_t parameter
IsrRegisterHandler ==
  \E vector \in VectorArgs, handler \in IsrHandlers :
    /\ isr_handlers' = isr_register_handler(isr_handlers, uint8(vector), handler)
    /\ last' = [op |-> "isr_register_handler", by |-> NULL, vector |-> vector,
                handler |-> handler, before |-> isr_handlers]
    /\ UNCHANGED outsideIdt

NextIdt == IsrRegisterHandler

SpecIdt == Init /\ [][NextIdt]_vars

\* C28: a call with a vector number of 256 or more changes no entry of
\* the handler table
LargeVectorRejected ==
  (last.op = "isr_register_handler" /\ last.vector >= IDT_ENTRIES) =>
    \A v \in 0 .. (IDT_ENTRIES - 1) :
      HandlerAt(isr_handlers, v) = HandlerAt(last.before, v)

(* ------------------------------------------------------------------ *)
(* proc_destroy among the scheduler operations                         *)
(* ------------------------------------------------------------------ *)

\* the running process calls proc_destroy on a TCB of the table or on a
\* null pointer
ProcDestroy ==
  \E proc \in Slots \cup {NULL} :
    /\ proc # NULL /\ proc # idle_process => scheduler_remove_returns(K, proc)
    /\ SetK(proc_destroy(K, proc))
    /\ last' = [op |-> "proc_destroy", by |-> current_process, proc |-> proc,
                was |-> IF proc = NULL THEN PROC_UNUSED ELSE StateOf(proc)]
    /\ UNCHANGED <<quanta, outsideSched>>

\* the pids handed out in one run are bounded for model checking
MaxPid == 2

\* proc_create while pids are left
ProcCreateBounded == next_pid <= MaxPid /\ ProcCreate

NextDestroy == ProcCreateBounded \/ ProcYield \/ ProcExit \/ TimerTick \/ ProcDestroy

SpecDestroy == Init /\ [][NextDestroy]_vars

\* the last slot of the ready queue, NULL for the empty queue
QueueLast == IF ReadyQueue = <<>> THEN NULL ELSE ReadyQueue[Len(ReadyQueue)]

\* C29: with proc_destroy among the operations, a process-table entry is on
\* the ready queue exactly once when it is READY and not at all otherwise,
\* the queue is acyclic and ready_queue_tail is its last element
ReadyQueueInvariant ==
  /\ \A i \in Slots :
       TimesOnQueue(i) = IF StateOf(i) = PROC_READY THEN 1 ELSE 0
  /\ Len(ReadyQueue) <= MAX_PROCESSES
  /\ ready_queue_tail = QueueLast

(* ------------------------------------------------------------------ *)
(* The idle process and the ready queue                                *)
(* ------------------------------------------------------------------ *)

\* a step in which schedule() switches from a task to the idle process
SwitchToIdle == current_process # idle_process /\ current_process' = idle_process

\* C30: the idle process is never on the ready queue, and schedule() makes
\* it the running task only when the ready queue is empty at that moment
IdleOnlyWhenQueueEmpty ==
  /\ [](~OnQueue(idle_process))
  /\ [][SwitchToIdle => ready_queue_head = NULL]_vars

(* ------------------------------------------------------------------ *)
(* Process slots over a whole run                                      *)
(* ------------------------------------------------------------------ *)

\* the table, the ready queue and next_pid
SlotState == <<proc_table, ready_queue_head, ready_queue_tail, next_pid>>

\* the running process calls proc_create; the pointer returned is the slot
\* proc_alloc found (process.c:70-73 and 115)
ProcCreateCall ==
  /\ SetK(proc_create(K))
  /\ last' = [op |-> "proc_create", by |-> current_process,
              ret |-> proc_alloc(K), before |-> SlotState]
  /\ UNCHANGED <<quanta, outsideSched>>

NextSlots == ProcCreateCall \/ ProcYield \/ ProcExit \/ TimerTick

SpecSlots == Init /\ [][NextSlots]_vars

\* C31: without proc_destroy the slots 1, 2, ... are handed out once each
\* from UNUSED entries and never become UNUSED again, so at most
\* MAX_PROCESSES - 1 calls of proc_create succeed; every later call returns
\* NULL and changes neither the table, the ready queue nor next_pid
SlotsNeverReused ==
  /\ next_pid <= MAX_PROCESSES
  /\ \A i \in Slots : i >= 1 => (StateOf(i) = PROC_UNUSED <=> i >= next_pid)
  /\ last.op = "proc_create" =>
       /\ last.before[4] = MAX_PROCESSES => last.ret = NULL
       /\ last.ret = NULL => SlotState = last.before
       /\ last.ret # NULL =>
            /\ last.before[1][last.ret].state = PROC_UNUSED
            /\ next_pid = last.before[4] + 1

\* C31 witness: proc_create has just failed on a table whose slots are all
\* taken although a created process has already exited
SlotsNeverReusedWitness ==
  /\ last.op = "proc_create"
  /\ last.ret = NULL
  /\ next_pid = MAX_PROCESSES
  /\ \E i \in Slots : StateOf(i) = PROC_ZOMBIE

(* ------------------------------------------------------------------ *)
(* One writer and one reader on the pipes                              *)
(* ------------------------------------------------------------------ *)

\* the task that uses the write handles and the task that uses the read
\* handles
Writer == 1
Reader == 2

\* the calls of one run
MaxRingCalls == 6

RingCanCall(t) == pcall[t].op = "none" /\ phist.calls < MaxRingCalls

\* the writer creates a pipe
RingCreate ==
  /\ RingCanCall(Writer)
  /\ LET i == pipe_free_slot(pipes) IN
     /\ pipes' = pipe_create(pipes)
     /\ phist' = IF i = NULL
                   THEN [phist EXCEPT !.calls = @ + 1]
                   ELSE [phist EXCEPT !.calls = @ + 1, !.gen[i] = @ + 1,
                                      !.accepted[i] = <<>>,
                                      !.delivered[i] = <<>>,
                                      !.eof[i] = FALSE]
     /\ last' = [op |-> "pipe_create", by |-> Writer,
                 ret |-> IF i = NULL THEN -1 ELSE i, call |-> NoCall]
  /\ UNCHANGED <<pcall, outsidePipe>>

\* the writer calls pipe_write on a write handle (pipe.c:81-84)
RingWriteCall ==
  \E fd \in Fds : \E len \in 1 .. MaxLen :
    /\ fd % 2 = 1
    /\ RingCanCall(Writer)
    /\ phist.bytes + len <= MaxBytes
    /\ LET c == NewCall("pipe_write", "w85", fd, len,
                        [k \in 1 .. len |-> phist.bytes + k]) IN
       IF c.pipe = NULL
         THEN /\ Ret(Writer, c, -1)
              /\ phist' = [phist EXCEPT !.calls = @ + 1]
         ELSE /\ pcall' = [pcall EXCEPT ![Writer] = c]
              /\ phist' = [phist EXCEPT !.calls = @ + 1, !.bytes = @ + len]
              /\ last' = NoReturn
    /\ UNCHANGED <<pipes, outsidePipe>>

\* the reader calls pipe_read on a read handle (pipe.c:113-116)
RingReadCall ==
  \E fd \in Fds : \E len \in ReadLens :
    /\ fd % 2 = 0
    /\ RingCanCall(Reader)
    /\ LET c == NewCall("pipe_read", "r122", fd, len, <<>>) IN
       IF c.pipe = NULL
         THEN Ret(Reader, c, -1)
         ELSE pcall' = [pcall EXCEPT ![Reader] = c] /\ last' = NoReturn
    /\ phist' = [phist EXCEPT !.calls = @ + 1]
    /\ UNCHANGED <<pipes, outsidePipe>>

\* the writer closes a write handle or the reader a read handle
\* (pipe.c:143-146)
RingCloseCall ==
  \E t \in {Writer, Reader} : \E fd \in Fds :
    /\ fd % 2 = (IF t = Writer THEN 1 ELSE 0)
    /\ RingCanCall(t)
    /\ LET c == NewCall("pipe_close", "c148", fd, 0, <<>>) IN
       IF c.pipe = NULL
         THEN Ret(t, c, -1)
         ELSE pcall' = [pcall EXCEPT ![t] = c] /\ last' = NoReturn
    /\ phist' = [phist EXCEPT !.calls = @ + 1]
    /\ UNCHANGED <<pipes, outsidePipe>>

NextRing ==
  \/ RingCreate \/ RingWriteCall \/ RingReadCall \/ RingCloseCall
  \/ W85 \/ W91 \/ W93 \/ W94 \/ W96 \/ W100 \/ W101 \/ W102
  \/ R122 \/ R123 \/ R125 \/ R129 \/ R130 \/ R131 \/ R132
  \/ C148 \/ C155

SpecRing == Init /\ [][NextRing]_vars

\* no task is between the update of a position and the update of count
\* (pipe.c:101-102 and 131-132)
CountSettled ==
  \A t \in Callers :
    ~In(t, "pipe_write", "w102") /\ ~In(t, "pipe_read", "r132")

PositionsInRange(s) ==
  /\ pipes[s].read_pos \in Cells
  /\ pipes[s].write_pos \in Cells
  /\ pipes[s].count >= 0
  /\ pipes[s].count <= PIPE_BUFFER_SIZE

\* the equation of C32 to the letter: count = (write_pos - read_pos) mod
\* capacity, which no full pipe satisfies
RingCountExact ==
  \A s \in PipeIds :
    (pipes[s].in_use = 1 /\ CountSettled) =>
      /\ PositionsInRange(s)
      /\ pipes[s].count =
           (pipes[s].write_pos - pipes[s].read_pos) % PIPE_BUFFER_SIZE

\* C32 with a full pipe allowed for: count is congruent to
\* write_pos - read_pos modulo the capacity (a full pipe has count =
\* capacity and equal positions), with count between 0 and the capacity
\* and both positions below the capacity
RingCountCongruent ==
  \A s \in PipeIds :
    (pipes[s].in_use = 1 /\ CountSettled) =>
      /\ PositionsInRange(s)
      /\ pipes[s].count % PIPE_BUFFER_SIZE =
           (pipes[s].write_pos - pipes[s].read_pos) % PIPE_BUFFER_SIZE

(* ------------------------------------------------------------------ *)
(* The block list and the counters of the heap                         *)
(* ------------------------------------------------------------------ *)

RECURSIVE SumFree(_, _)
\* the sum of the sizes of the blocks of h from i on that are free
SumFree(h, i) ==
  IF i > Len(h) THEN 0
  ELSE (IF h[i].free = 1 THEN h[i].size ELSE 0) + SumFree(h, i + 1)

\* the blocks of h follow one another without gap or overlap from
\* HEAP_START to the end of the arena
Tiles(h) ==
  /\ h # <<>>
  /\ h[1].addr = HEAP_START
  /\ \A i \in 1 .. (Len(h) - 1) : h[i + 1].addr = h[i].addr + HeaderSize + h[i].size
  /\ h[Len(h)].addr + HeaderSize + h[Len(h)].size = HEAP_START + HEAP_SIZE

\* C33: the block list is address-ordered and tiles the arena exactly, the
\* free counter of mm_stats is the sum of the sizes of the free blocks and
\* the allocated counter the sum of the sizes of the busy blocks
HeapAccounting ==
  /\ Tiles(heap)
  /\ total_free = SumFree(heap, 1)
  /\ total_allocated = SumUsed(heap, 1)

(* ------------------------------------------------------------------ *)
(* Present entries and the page bitmap                                 *)
(* ------------------------------------------------------------------ *)

\* C34: every present page-directory entry and every present entry of the
\* page table it names refers to a physical page whose bit is set in the
\* page bitmap
PresentIsReserved ==
  \A d \in DOMAIN page_directory :
    page_directory[d].present = 1 =>
      /\ page_directory[d].table \in page_bitmap
      /\ \A i \in 0 .. (PAGES_PER_TABLE - 1) :
           ptmem[page_directory[d].table][i].present = 1 =>
             ptmem[page_directory[d].table][i].frame \in page_bitmap

(* ------------------------------------------------------------------ *)
(* Data segments for an ESTABLISHED socket, and tcp_recv               *)
(* ------------------------------------------------------------------ *)

\* the calls of tcp_handle and tcp_recv made in one run
MaxRecvCalls == 3

\* the socket that holds the connection
DataSock == 0

\* the lengths of the segments: no data, one and two bytes, and more than
\* recv_buf holds
SegLens == {20, 21, 22, 20 + RECV_BUF_SIZE + 1}
\* the data offsets: none, the header, and more than the segment has
DataOffsets == {0, 20, 60}
\* the byte the memory after the packet holds
StaleBytes == {85, 170}
\* the sizes of the buffer given to tcp_recv
RecvLens == {0, 1, RECV_BUF_SIZE + 1}

\* what one run has done: the calls, the bytes tcp_handle stored in
\* recv_buf, the payload bytes its ACKs cover, the bytes tcp_recv returned,
\* and whether every segment had its data at offset 20
NoRecvHistory ==
  [calls |-> 0, buffered |-> <<>>, acked |-> <<>>, delivered |-> <<>>,
   plain |-> TRUE]
RecvHistory == IF "hist" \in DOMAIN last THEN last.hist ELSE NoRecvHistory

\* one connection in ESTABLISHED, made of the wait of tcp_accept (tcp.c
\* LISTEN, SYN, ACK) with the peer's MAC still to be resolved
InitRecv ==
  /\ InitKernel
  /\ tcp_sockets = [i \in TcpSlots |->
                      IF i = DataSock THEN ConnectedSocket(TCP_ESTABLISHED)
                      ELSE FreeSocket]
  /\ tcp_isn = 305419896
  /\ rx_ring = <<>>

\* tcp_handle is given a segment of the peer with ACK set: len bytes, the
\* data offset off in byte 12, its data numbered in order of arrival, and
\* behind it the memory that follows the packet; the peer answers the ARP
\* request that the first ACK needs
DataSegment ==
  /\ RecvHistory.calls < MaxRecvCalls
  /\ \E len \in SegLens : \E off \in DataOffsets : \E stale \in StaleBytes :
       LET h == RecvHistory
           answer == PeerMac
           n == Len(h.acked)
           data == [k \in 1 .. (len - 20) |-> n + k]
           seg == [TcpSegment(PeerPort, ServicePort, PeerIsn + 1 + n, 0, TCP_ACK,
                              data, len) EXCEPT ![13] = (off \div 4) * 16]
           mem == seg \o [k \in 1 .. (60 + RECV_BUF_SIZE) |-> stale]
           r == tcp_handle(tcp_sockets, arp_cache, mem, len, PeerIp,
                           timer_ticks, answer)
           old == tcp_sockets[DataSock]
           new == r.socks[DataSock]
           advance == new.ack_num - old.ack_num
       IN /\ tcp_sockets' = r.socks
          /\ arp_cache' = r.cache
          /\ last' = [op |-> "tcp_handle", by |-> NULL, before |-> tcp_sockets,
                      len |-> len, off |-> off, sent |-> r.sent,
                      advance |-> advance,
                      hist |-> [h EXCEPT
                                  !.calls = @ + 1,
                                  !.buffered = @ \o SubSeq(new.recv_buf,
                                                           Len(old.recv_buf) + 1,
                                                           Len(new.recv_buf)),
                                  !.acked = IF off = 20 THEN @ \o data ELSE @,
                                  !.plain = @ /\ off = 20]]
  /\ UNCHANGED <<timer_ticks, tcp_isn, rx_ring, outsideTcp>>

\* tcp_recv(sock, buffer, max_len): net_poll, then the copy
TcpRecv ==
  /\ RecvHistory.calls < MaxRecvCalls
  /\ \E sock \in {DataSock, MAX_TCP_SOCKETS} : \E max_len \in RecvLens :
       LET h == RecvHistory
           p == net_poll(arp_cache, rx_ring, timer_ticks)
           r == tcp_recv(tcp_sockets, sock, max_len)
       IN /\ arp_cache' = IF sock = DataSock THEN p.cache ELSE arp_cache
          /\ rx_ring' = IF sock = DataSock THEN <<>> ELSE rx_ring
          /\ tcp_sockets' = r.socks
          /\ last' = [op |-> "tcp_recv", by |-> NULL, before |-> tcp_sockets,
                      sock |-> sock, max_len |-> max_len, ret |-> r.ret,
                      buffer |-> r.buffer,
                      hist |-> [h EXCEPT !.calls = @ + 1,
                                         !.delivered = @ \o r.buffer]]
  /\ UNCHANGED <<timer_ticks, tcp_isn, outsideTcp>>

NextRecv == DataSegment \/ TcpRecv

SpecRecv == InitRecv /\ [][NextRecv]_vars

\* u is the start of v
IsPrefix(u, v) == Len(u) <= Len(v) /\ SubSeq(v, 1, Len(u)) = u

\* C35: recv_len never exceeds the size of recv_buf, whatever the length
\* and the data offset of the segments; tcp_handle appends to what is
\* buffered; tcp_recv returns the first min(recv_len, max_len) bytes and
\* leaves the rest in order, so that the bytes returned so far followed by
\* the buffer are the bytes stored, in the order they were stored
RecvInOrder ==
  /\ \A i \in TcpSlots : Len(tcp_sockets[i].recv_buf) <= RECV_BUF_SIZE
  /\ last.op = "tcp_handle" =>
       IsPrefix(last.before[DataSock].recv_buf, tcp_sockets[DataSock].recv_buf)
  /\ (last.op = "tcp_recv" /\ last.sock = DataSock) =>
       LET was == last.before[DataSock].recv_buf IN
       /\ last.ret = (IF Len(was) < last.max_len THEN Len(was) ELSE last.max_len)
       /\ last.buffer = SubSeq(was, 1, last.ret)
       /\ tcp_sockets[DataSock].recv_buf = SubSeq(was, last.ret + 1, Len(was))
  /\ RecvHistory.delivered \o tcp_sockets[DataSock].recv_buf = RecvHistory.buffered

\* C35 witness: tcp_recv has returned a part of what was buffered, after a
\* segment whose data offset lies behind its end had filled recv_buf
RecvInOrderWitness ==
  /\ last.op = "tcp_recv"
  /\ last.sock = DataSock
  /\ last.ret > 0
  /\ Len(last.before[DataSock].recv_buf) = RECV_BUF_SIZE
  /\ tcp_sockets[DataSock].recv_buf # <<>>
  /\ ~RecvHistory.plain

\* C36: every payload byte the advance of ack_num covers is still in
\* recv_buf or was returned by tcp_recv
AckedDataKept ==
  RecvHistory.plain =>
    RecvHistory.delivered \o tcp_sockets[DataSock].recv_buf = RecvHistory.acked

(* ------------------------------------------------------------------ *)
(* Names within a directory, and the current directory                 *)
(* ------------------------------------------------------------------ *)

\* the files written: a plain name, and a path into a directory that
\* exists for a file that is missing
WritePathArgs == {<<<<"c">>, <<"d">>>>, <<<<"v", "a", "r", "/", "n">>, <<"d">>>>}

FsWritePath ==
  \E a \in WritePathArgs :
    LET r == fs_write(nodes, current_dir, a[1], a[2], Len(a[2]), timer_ticks) IN
    /\ nodes' = r.nodes
    /\ last' = [op |-> "fs_write", by |-> NULL, name |-> a[1], ret |-> r.ret,
                idx |-> resolve_path(nodes, current_dir, a[1])]
    /\ UNCHANGED <<current_dir, shellVars, outsideFs>>

NextNames == FsMkdir \/ CmdTouch \/ FsWritePath \/ CmdRm

SpecNames == Init /\ [][NextNames]_vars

\* C37: no two nodes in use have the same parent index and the same name
ChildNamesUnique ==
  \A i, j \in NodeIds :
    (/\ i # j
     /\ nodes[i].type # NODE_FREE
     /\ nodes[j].type # NODE_FREE
     /\ nodes[i].parent = nodes[j].parent) => nodes[i].name # nodes[j].name

\* removals by an absolute path, which reach the directory the shell is in
RmAbsArgs == {<<"-", "r", " ", "/", "v", "a", "r">>, <<"-", "r", " ", "/",
      "x">>}

CmdRmAbs ==
  \E args \in RmAbsArgs :
    LET idx == resolve_path(nodes, current_dir, rm_target(args)) IN
    /\ SetF(cmd_rm(F, args))
    /\ last' = [op |-> "cmd_rm", by |-> NULL, before |-> nodes, idx |-> idx,
                dir |-> idx > 0 /\ nodes[idx].type = NODE_DIR /\ rm_recursive(args)]
    /\ UNCHANGED <<pipe_buffer, pipe_mode, outsideFs>>

NextCwd == FhsChdir \/ FsMkdir \/ CmdTouch \/ FsWrite \/ CmdRmAbs

SpecCwd == Init /\ [][NextCwd]_vars

\* C38: current_dir is the index of a node in use of type DIR
CurrentDirIsLive ==
  /\ current_dir \in NodeIds
  /\ nodes[current_dir].type = NODE_DIR

(* ------------------------------------------------------------------ *)
(* Signals for the processes of the table                              *)
(* ------------------------------------------------------------------ *)

\* the processes made by proc_create and not destroyed
LiveSlots == {k \in Slots : k # idle_process /\ StateOf(k) # PROC_UNUSED}

\* proc_create while the pid counter has not passed the size of the table
SigLiveCreate ==
  /\ next_pid <= MAX_PROCESSES
  /\ SetK(proc_create(K))
  /\ last' = [op |-> "proc_create", by |-> current_process,
              ret |-> proc_alloc(K), pid |-> next_pid,
              state |-> IF next_pid < MAX_PROCESSES
                          THEN signal_states[next_pid] ELSE signal_init[0]]
  /\ UNCHANGED <<quanta, outsideSched>>

\* signal_send(pid, sig) with the pid of a process of the table
SignalSendLive ==
  \E k \in LiveSlots : \E sig \in {SIGINT, SIGKILL} :
    LET pid == proc_table[k].pid IN
    /\ SigCall
    /\ signal_states' = signal_send(signal_states, pid, sig)
    /\ last' = [op |-> "signal_send", by |-> proc_get_pid(K), to |-> pid,
                sig |-> sig, ret |-> signal_send_ret(pid, sig)]
    /\ UNCHANGED <<schedVars, outsideSignal>>

NextSigLive == SigLiveCreate \/ ProcExit \/ ProcDestroy \/ SignalSendLive

SpecSigLive == Init /\ [][NextSigLive]_vars

\* C39: signal_send to a process of the table returns 0 and sets the
\* pending bit in the state of its pid, and the state a new process finds
\* under its pid is the one signal_init made
LiveProcessSignalled ==
  /\ (last.op = "signal_send" /\ \E k \in LiveSlots : proc_table[k].pid = last.to) =>
       /\ last.ret = 0
       /\ last.to \in Pids
       /\ last.sig \in signal_states[last.to].pending
  /\ (last.op = "proc_create" /\ last.ret # NULL /\ last.pid \in Pids) =>
       last.state = signal_init[0]

(* ------------------------------------------------------------------ *)
(* shell_execute_advanced with every operator                          *)
(* ------------------------------------------------------------------ *)

\* 226-381: the commands of execute_with_pipe_input that work on the
\* input handed to them
StdinCommands == {<<"w", "c">>, <<"g", "r", "e", "p">>, <<"h", "e", "a", "d">>, <<"t", "a", "i", "l">>, <<"s", "o", "r", "t">>, <<"u", "n", "i", "q">>}

\* one call made while a line is executed
Call(fn, arg) == [fn |-> fn, arg |-> arg]

\* shell_execute_simple(c) on the state g of a line being executed
Simple(g, c, now) ==
  [g EXCEPT !.f = shell_execute_simple(@, c, now),
            !.calls = Append(@, Call("shell_execute_simple", c))]

\* 190-204: execute_simple_cmd(cmd, input_data)
execute_simple_cmd(g, cmd, now) ==
  LET command == trim(strncpy(cmd, 255)) IN
  IF command = <<>> THEN g ELSE Simple(g, command, now)

\* 209-386: execute_with_pipe_input(cmd, input); a command that works on
\* the input prints what it finds there and runs nothing
execute_with_pipe_input(g, cmd, input, now) ==
  LET c == parse_cmd(cmd) IN
  IF c.cmd \in StdinCommands \/ (c.cmd = <<"c", "a", "t">> /\ c.args = <<>>)
    THEN [g EXCEPT !.calls = Append(@, Call("stdin", cmd))]
    ELSE execute_simple_cmd(g, cmd, now)

\* 461-476 with the right-hand side run after || too
runs_right_always(op) == TRUE

\* 461-476: of the operators && || and ; the ones whose right-hand side
\* is handed to shell_execute_advanced
runs_right(op) == op # 6

\* 417-420, 424-426, 437-439: the capture around the command on the left
\* of | > and >>, which has run in g1; its characters went out through
\* kprintf and none of them is in the capture buffer
Capture(g1) == [g1 EXCEPT !.buf = <<>>, !.mode = 0]

\* 427 and 441-446: fs_write(right, data, len) after the capture
Redirect(g1, right, data, now) ==
  LET w == fs_write(g1.f.nodes, g1.f.current_dir, right, data, Len(data), now)
  IN [g1 EXCEPT !.f.nodes = w.nodes,
                !.calls = Append(@, Call("fs_write", right))]

\* 432-435: what case 3 reads from the file before the command runs
Existing(g, right) ==
  LET r == fs_read(g.f.nodes, g.f.current_dir, right, 4095) IN
  IF r.ret < 0 THEN <<>> ELSE r.buf

\* 441-444: the content of the file with the capture buffer appended
Appended(existing, buf) ==
  IF Len(existing) + Len(buf) < 4095 THEN existing \o buf ELSE existing

\* 449-459: cmd < file
InputFrom(g, left, right, now) ==
  LET r == fs_read(g.f.nodes, g.f.current_dir, right, 4095) IN
  IF r.ret >= 0 THEN execute_with_pipe_input(g, left, r.buf, now)
  ELSE [g EXCEPT !.f = Shown(@, kprintf(<<"C", "a", "n", "n", "o", "t", " ",
        "r", "e", "a", "d", ":", " ", "%", "s", "\n">>, << right >>))]

RECURSIVE shell_execute_advanced(_, _, _)

\* the switch at 416-477 from the point where the command on the left has
\* run in g1 (every case but 4 runs it first); existing is what case 3
\* has read from the file before
AfterLeft(g1, op, right, existing, now) ==
  CASE op = 0 -> g1
    [] op = 1 -> execute_with_pipe_input(Capture(g1), right, <<>>, now)
    [] op = 2 -> Redirect(Capture(g1), right, <<>>, now)
    [] op = 3 -> Redirect(Capture(g1), right, Appended(existing, <<>>), now)
    [] OTHER -> IF runs_right(op) THEN shell_execute_advanced(g1, right, now)
                ELSE g1

\* shell_execute_advanced(input) on the state g0, for lines whose parts
\* fit left[256] and right[256]
shell_execute_advanced(g0, input, now) ==
  LET g == [g0 EXCEPT !.depth = @ + 1]
      cmdline == strncpy(input, 511)
      found == find_operator(cmdline)
      op == found.ret
      skip == IF op \in {3, 5, 6} THEN 2 ELSE 1
      left == trim(SubSeq(cmdline, 1, found.pos))
      right == trim(SubSeq(cmdline, found.pos + skip + 1, Len(cmdline)))
  IN IF op = 4 THEN InputFrom(g, left, right, now)
     ELSE AfterLeft(Simple(g, IF op = 0 THEN cmdline ELSE left, now), op,
                    right, IF op = 3 THEN Existing(g, right) ELSE <<>>, now)

\* the lines typed: every operator as the leftmost one with a command
\* behind a later ; or &&, and removals that make room in the table
OperatorLines ==
  {<<"t", "o", "u", "c", "h", " ", "a", " ", "|", " ", "e", "c", "h", "o", " ", "b", " ", ";", " ", "t", "o", "u", "c", "h", " ", "c">>,
   <<"e", "c", "h", "o", " ", "b", " ", ">", " ", "f", " ", ";", " ", "t", "o", "u", "c", "h", " ", "c">>,
   <<"e", "c", "h", "o", " ", "b", " ", ">", ">", " ", "f", " ", "&", "&", " ", "t", "o", "u", "c", "h", " ", "c">>,
   <<"e", "c", "h", "o", " ", "b", " ", "<", " ", "f", " ", ";", " ", "t", "o", "u", "c", "h", " ", "c">>,
   <<"t", "o", "u", "c", "h", " ", "a", " ", "|", "|", " ", "t", "o", "u", "c", "h", " ", "b", " ", ";", " ", "t", "o", "u", "c", "h", " ", "c">>,
   <<"t", "o", "u", "c", "h", " ", "a", " ", ";", " ", "t", "o", "u", "c", "h", " ", "b", " ", ";", " ", "t", "o", "u", "c", "h", " ", "c">>,
   <<"t", "o", "u", "c", "h", " ", "a", " ", "&", "&", " ", "e", "c", "h", "o", " ", "b", " ", "|", " ", "t", "o", "u", "c", "h", " ", "c">>,
   <<"t", "o", "u", "c", "h", " ", "c">>,
   <<"r", "m", " ", "-", "r", " ", "t", "m", "p", " ", ";", " ", "r", "m", " ", "c">>,
   <<"r", "m", " ", "a", " ", "&", "&", " ", "r", "m", " ", "b">>,
   <<"r", "m", " ", "-", "r", " ", "o", "p", "t", " ", ";", " ", "t", "o", "u", "c", "h", " ", "b">>}

\* what a line leaves behind: g is the state shell_execute_advanced ends in
SetShell(g, input) ==
  /\ SetF(g.f)
  /\ pipe_buffer' = g.buf
  /\ pipe_mode' = g.mode
  /\ last' = [op |-> "shell_execute", by |-> NULL, line |-> input,
              calls |-> g.calls, depth |-> g.depth]

\* shell.c: shell_execute(input) hands the line to shell_execute_advanced
ShellExecute ==
  \E input \in OperatorLines :
    /\ SetShell(shell_execute_advanced(
                  [f |-> F, buf |-> pipe_buffer, mode |-> pipe_mode,
                   calls |-> <<>>, depth |-> 0], input, timer_ticks), input)
    /\ UNCHANGED outsideFs

NextOperators == ShellExecute

SpecOperators == Init /\ [][NextOperators]_vars

\* the parts of the line last executed, as find_operator splits it
LineOp == find_operator(last.line).ret
LineLeft == trim(SubSeq(last.line, 1, find_operator(last.line).pos))
LineRight ==
  trim(SubSeq(last.line,
              find_operator(last.line).pos + (IF LineOp \in {3, 5, 6} THEN 3 ELSE 2),
              Len(last.line)))
RightOp == find_operator(LineRight).ret
RightLeft == trim(SubSeq(LineRight, 1, find_operator(LineRight).pos))

====
